---- MODULE Spec2Model ----
(***************************************************************************)
(* Model of the chat moderator bot (src/main.py): the shared configuration *)
(* document and its persistence, the banned-phrase matcher, the ordered    *)
(* rule pipeline of moderation_gate, the newcomer guard on_new_members,    *)
(* the configuration commands and the scheduler's pair of recurring jobs.  *)
(*                                                                         *)
(* Strings are sequences of one-character strings, so that strip, lower,   *)
(* split and the regular expressions are computed as the code computes     *)
(* them.  None, for a string or an identifier, is the falsy value of its   *)
(* type (<<>> or 0): the code only ever tests these values for truth.      *)
(***************************************************************************)
EXTENDS Integers, Sequences, FiniteSets, TLC

VARIABLES
    CONFIG,        \* the in-memory configuration document (main.py:97)
    disk,          \* config.json as it is on disk (main.py:23)
    BADWORDS_RE,   \* the compiled matcher (main.py:113)
    SCHEDULER,     \* the scheduler and its jobs (main.py:178)
    ev,            \* the update the dispatcher handled last, with its trace
    faults,         \* failed writes of config.json so far
    perms,         \* the permission profile of each chat at the transport (main.py:201-211)
    unmute_later   \* the deferred restores of /mute1m that are still asleep (main.py:427-433)
vars == <<CONFIG, disk, BADWORDS_RE, SCHEDULER, ev, faults, perms, unmute_later>>

\* ------------------------------------------------------------- bounds
\* how many writes of config.json may fail in one run
MaxSaveFailures == 1
\* the latest reading of the clock, in minutes
MaxNow == 1
\* how many unmute_later tasks may be asleep at once
MaxPending == 2

\* ------------------------------------------------------------ characters
None == 0
NoneStr == <<>>

Uppers == <<"A", "B", "C", "D", "E", "F", "G", "H", "I", "J", "K", "L", "M",
            "N", "O", "P", "Q", "R", "S", "T", "U", "V", "W", "X", "Y", "Z">>
Lowers == <<"a", "b", "c", "d", "e", "f", "g", "h", "i", "j", "k", "l", "m",
            "n", "o", "p", "q", "r", "s", "t", "u", "v", "w", "x", "y", "z">>
Digits == <<"0", "1", "2", "3", "4", "5", "6", "7", "8", "9">>
\* the characters of the model in code point order, as sorted() compares them
Alphabet == <<"\n", " ", "+", ",", "-", ".", "/">> \o Digits \o <<":", ";", "@">>
            \o Uppers \o <<"_">> \o Lowers

Range(s) == {s[i] : i \in DOMAIN s}
UpperSet == Range(Uppers)
LowerSet == Range(Lowers)
DigitSet == Range(Digits)

WordChars == UpperSet \cup LowerSet \cup DigitSet \cup {"_"}
OrdOf == [c \in Range(Alphabet) |-> CHOOSE i \in DOMAIN Alphabet : Alphabet[i] = c]
LowerOf == [c \in Range(Alphabet) |->
               IF c \in UpperSet THEN Lowers[CHOOSE i \in DOMAIN Uppers : Uppers[i] = c] ELSE c]

\* ord(c)
Ord(c) == OrdOf[c]
IsSpace(c) == c \in {" ", "\n"}
IsDigit(c) == c \in DigitSet
\* \w of the re module, on the model's characters
IsWord(c) == c \in WordChars
\* [a-zA-Z0-9_] of USERNAME_RE
IsHandleChar(c) == c \in WordChars
\* a character without its case, as str.lower() and (?i) take it
LowerCh(c) == LowerOf[c]

\* --------------------------------------------------------------- strings
RECURSIVE LStrip(_)
LStrip(s) == IF s # <<>> /\ IsSpace(Head(s)) THEN LStrip(Tail(s)) ELSE s
RECURSIVE RStrip(_)
RStrip(s) == IF s # <<>> /\ IsSpace(s[Len(s)]) THEN RStrip(SubSeq(s, 1, Len(s) - 1)) ELSE s
\* str.strip()
strip(s) == RStrip(LStrip(s))
\* str.lower()
lower(s) == [i \in DOMAIN s |-> LowerCh(s[i])]

\* the pieces of s between the characters of seps (empty pieces included)
RECURSIVE SplitAt(_, _, _)
SplitAt(s, seps, cur) ==
    IF s = <<>> THEN <<cur>>
    ELSE IF Head(s) \in seps THEN <<cur>> \o SplitAt(Tail(s), seps, <<>>)
    ELSE SplitAt(Tail(s), seps, Append(cur, Head(s)))
NonEmpty(p) == p # <<>>
\* str.split(): the maximal runs of non-whitespace characters
split(s) == SelectSeq(SplitAt(s, {" ", "\n"}, <<>>), NonEmpty)

\* a < b as Python compares two strings
RECURSIVE StrLess(_, _)
StrLess(a, b) ==
    IF b = <<>> THEN FALSE
    ELSE IF a = <<>> THEN TRUE
    ELSE IF Head(a) = Head(b) THEN StrLess(Tail(a), Tail(b))
    ELSE Ord(Head(a)) < Ord(Head(b))
\* sorted() of a set of strings
RECURSIVE SortedStr(_)
SortedStr(S) ==
    IF S = {} THEN <<>>
    ELSE LET m == CHOOSE x \in S : \A y \in S : x = y \/ StrLess(x, y)
         IN  <<m>> \o SortedStr(S \ {m})
\* sorted() of a set of integers
RECURSIVE SortedInt(_)
SortedInt(S) ==
    IF S = {} THEN <<>>
    ELSE LET m == CHOOSE x \in S : \A y \in S : x <= y
         IN  <<m>> \o SortedInt(S \ {m})

\* s has the string w at position i, whatever the case of the letters
MatchAt(s, i, w) ==
    /\ i >= 1
    /\ i + Len(w) - 1 <= Len(s)
    /\ \A k \in 1..Len(w) : LowerCh(s[i + k - 1]) = LowerCh(w[k])
\* \b of the re module at the place before s[i] (i in 1..Len(s)+1)
WordBoundary(s, i) ==
    LET before == i > 1 /\ IsWord(s[i - 1])
        after  == i <= Len(s) /\ IsWord(s[i])
    IN  before # after

\* ------------------------------------------------------- the matchers
\* the alternatives of URL_RE up to their \S+
UrlPrefixes == { <<"h", "t", "t", "p", ":", "/", "/">>,
                 <<"h", "t", "t", "p", "s", ":", "/", "/">>,
                 <<"t", ".", "m", "e", "/">>,
                 <<"t", "e", "l", "e", "g", "r", "a", "m", ".", "m", "e", "/">>,
                 <<"t", "e", "l", "e", "g", "r", "a", "m", ".", "o", "r", "g", "/">> }
\* URL_RE.search(txt): a prefix, in any case, followed by a non-space character
URL_RE_search(txt) ==
    \E i \in DOMAIN txt : \E p \in UrlPrefixes :
        /\ MatchAt(txt, i, p)
        /\ i + Len(p) <= Len(txt)
        /\ ~IsSpace(txt[i + Len(p)])
\* USERNAME_RE.search(txt): (?<!\w)@([a-zA-Z0-9_]{5,})\b
USERNAME_RE_search(txt) ==
    \E i \in DOMAIN txt :
        /\ txt[i] = "@"
        /\ ~(i > 1 /\ IsWord(txt[i - 1]))
        /\ \E k \in 5..(Len(txt) - i) :
              /\ \A j \in 1..k : IsHandleChar(txt[i + j])
              /\ WordBoundary(txt, i + k + 1)

\* one alternative of the banned-phrase pattern: the escaped phrase, between
\* \b and \b unless it holds a space or a hyphen
BadwordPart(w) ==
    LET s == strip(w)
    IN  [lit |-> s, wb |-> ~(\E i \in DOMAIN s : s[i] \in {" ", "-"})]
Stripped(w) == strip(w) # <<>>
NoRE == [compiled |-> FALSE, parts |-> <<>>]
build_badwords_regex(cfg) ==
    LET kept  == SelectSeq(cfg.banned_words, Stripped)
        parts == [i \in DOMAIN kept |-> BadwordPart(kept[i])]
    IN  IF parts = <<>> THEN NoRE ELSE [compiled |-> TRUE, parts |-> parts]
\* re.search(txt) of a compiled banned-phrase pattern, (?i)
RE_search(re, txt) ==
    \E n \in DOMAIN re.parts : \E i \in DOMAIN txt :
        LET part == re.parts[n]
        IN  /\ MatchAt(txt, i, part.lit)
            /\ part.wb => /\ WordBoundary(txt, i)
                          /\ WordBoundary(txt, i + Len(part.lit))

text_of(msg) == strip(IF msg.text # NoneStr THEN msg.text ELSE msg.caption)

ListSeps == {"\n", ",", ";"}
StripLower(p) == lower(strip(p))
parse_badword_list(raw0) ==
    LET raw == strip(raw0)
    IN  IF raw = <<>> THEN <<>>
        ELSE IF \E i \in DOMAIN raw : raw[i] \in ListSeps
        THEN LET kept == SelectSeq(SplitAt(raw, ListSeps, <<>>), Stripped)
             IN  [i \in DOMAIN kept |-> StripLower(kept[i])]
        ELSE <<lower(raw)>>

\* ------------------------------------------------------ numbers and times
RECURSIVE DigitsValue(_)
DigitsValue(d) ==
    IF d = <<>> THEN 0
    ELSE 10 * DigitsValue(SubSeq(d, 1, Len(d) - 1)) + (Ord(d[Len(d)]) - Ord("0"))
\* str.isdigit()
isdigit(s) == s # <<>> /\ \A i \in DOMAIN s : IsDigit(s[i])
\* int(s): surrounding space, a sign, digits; ok is FALSE for ValueError
int(s0) ==
    LET s    == strip(s0)
        sgn  == s # <<>> /\ Head(s) \in {"+", "-"}
        body == IF sgn THEN Tail(s) ELSE s
    IN  IF isdigit(body)
        THEN [ok |-> TRUE, v |-> IF sgn /\ Head(s) = "-" THEN 0 - DigitsValue(body) ELSE DigitsValue(body)]
        ELSE [ok |-> FALSE, v |-> 0]
_parse_hhmm_any_hour(s0) ==
    LET parts == SplitAt(strip(s0), {":"}, <<>>)
        h == int(parts[1])
        m == int(parts[2])
    IN  IF Len(parts) = 2 /\ h.ok /\ m.ok /\ 0 <= m.v /\ m.v <= 59
        THEN [ok |-> TRUE, h |-> h.v, m |-> m.v]
        ELSE [ok |-> FALSE, h |-> 0, m |-> 0]
\* _parse_hhmm(s): ok is FALSE where the code raises
_parse_hhmm(s0) ==
    LET parts == SplitAt(strip(s0), {":"}, <<>>)
        h == int(parts[1])
        m == int(parts[2])
    IN  IF Len(parts) = 2 /\ h.ok /\ m.ok /\ 0 <= h.v /\ h.v <= 23 /\ 0 <= m.v /\ m.v <= 59
        THEN [ok |-> TRUE, h |-> h.v, m |-> m.v]
        ELSE [ok |-> FALSE, h |-> 0, m |-> 0]

EuropeMoscow == <<"E", "u", "r", "o", "p", "e", "/", "M", "o", "s", "c", "o", "w">>
UTC == <<"U", "T", "C">>
\* the zones ZoneInfo() finds; any other name makes it raise
TZDatabase == {EuropeMoscow, UTC}
_get_tz(cfg) == IF cfg.schedule.tz \in TZDatabase THEN cfg.schedule.tz ELSE EuropeMoscow

\* ------------------------------------------------------ the configuration
\* the identifiers the SUPERADMINS environment variable names at start
ENV_SUPERADMINS == {11}
DefaultSchedule ==
    [enabled |-> TRUE, open_time |-> <<"1", "0", ":", "0", "0">>,
     close_time |-> <<"1", "9", ":", "0", "0">>, tz |-> EuropeMoscow]
\* what load_config returns without a usable config.json
DefaultConfig ==
    [banned_words |-> <<>>, newbie_mute_minutes |-> 1,
     superadmins |-> SortedInt(ENV_SUPERADMINS),
     schedule |-> DefaultSchedule, managed_chats |-> <<>>]

\* config.json: missing, not parseable, or a document; unusable names the keys
\* that are absent or hold a value load_config replaces by the default
Missing == [state |-> "missing"]
Corrupt == [state |-> "corrupt"]
Document(cfg, unusable) == [state |-> "ok", doc |-> cfg, unusable |-> unusable]

load_config(d) ==
    IF d.state # "ok" THEN DefaultConfig
    ELSE LET doc == d.doc
             bw  == IF "banned_words" \in d.unusable THEN <<>> ELSE doc.banned_words
             nm  == IF "newbie_mute_minutes" \in d.unusable THEN 1 ELSE doc.newbie_mute_minutes
             mc  == IF "managed_chats" \in d.unusable THEN <<>> ELSE doc.managed_chats
         IN  [banned_words |-> SortedStr({lower(w) : w \in Range(bw)}),
              newbie_mute_minutes |-> IF nm < 0 THEN 1 ELSE nm,
              superadmins |-> SortedInt(Range(doc.superadmins) \cup ENV_SUPERADMINS),
              schedule |-> IF "schedule" \in d.unusable THEN DefaultSchedule ELSE doc.schedule,
              managed_chats |-> SortedInt(Range(mc))]

\* write_text either replaces the document, fails before touching it, or
\* fails after truncating it
SaveOutcomes == {"ok", "unchanged", "partial"}
save_config(cfg, d, outcome) ==
    CASE outcome = "ok"        -> Document(cfg, {})
      [] outcome = "unchanged" -> d
      [] outcome = "partial"   -> Corrupt
\* the outcomes a write may still have in this run
MaySave == IF faults < MaxSaveFailures THEN SaveOutcomes ELSE {"ok"}
Failed(outcome) == IF outcome = "ok" THEN 0 ELSE 1

\* ----------------------------------------------------------- privileges
\* the roles get_chat_member reports; "error" is the call raising
Roles == {"creator", "administrator", "member", "error"}
Call(op, chat, user, arg) == [op |-> op, chat |-> chat, user |-> user, arg |-> arg]

\* whether is_chat_admin asks the transport for the role
asks_role(chat_id, user_id, sender_chat_id) ==
    ~(sender_chat_id # None /\ sender_chat_id = chat_id) /\ user_id # None
is_chat_admin_creator_only(chat_id, user_id, sender_chat_id, role) ==
    IF sender_chat_id # None /\ sender_chat_id = chat_id THEN TRUE
    ELSE IF user_id = None THEN FALSE
    ELSE role = "creator"
is_chat_admin_fails_open(chat_id, user_id, sender_chat_id, role) ==
    IF sender_chat_id # None /\ sender_chat_id = chat_id THEN TRUE
    ELSE IF user_id = None THEN TRUE
    ELSE role \in {"administrator", "creator", "error"}
is_chat_admin(chat_id, user_id, sender_chat_id, role) ==
    IF sender_chat_id # None /\ sender_chat_id = chat_id THEN TRUE
    ELSE IF user_id = None THEN FALSE
    ELSE role \in {"administrator", "creator"}
is_chat_admin_calls(chat_id, user_id, sender_chat_id) ==
    IF asks_role(chat_id, user_id, sender_chat_id)
    THEN <<Call("get_chat_member", chat_id, user_id, 0)>> ELSE <<>>

is_private(msg) == msg.chat.type = "private"
is_superadmin(cfg, user_id) == user_id # None /\ user_id \in Range(cfg.superadmins)
can_manage_any_private(cfg, msg, role) ==
    IF is_private(msg) THEN TRUE
    ELSE is_chat_admin(msg.chat.id, msg.from_user, msg.sender_chat, role)
can_manage(cfg, msg, role) ==
    IF is_private(msg) THEN is_superadmin(cfg, msg.from_user)
    ELSE is_chat_admin(msg.chat.id, msg.from_user, msg.sender_chat, role)
can_manage_calls(msg) ==
    IF is_private(msg) THEN <<>>
    ELSE is_chat_admin_calls(msg.chat.id, msg.from_user, msg.sender_chat)
\* the outcomes of the role lookup can_manage may make for msg
ManageRoles(msg) ==
    IF ~is_private(msg) /\ asks_role(msg.chat.id, msg.from_user, msg.sender_chat)
    THEN Roles ELSE {"unasked"}

\* ------------------------------------------------------------ the scheduler
Job(id, h, m, tz) == [id |-> id, hour |-> h, minute |-> m, tz |-> tz]
NoScheduler == [running |-> FALSE, jobs |-> {}]
_reschedule_jobs(sched, cfg) ==
    IF ~sched.running THEN sched
    ELSE LET kept == {j \in sched.jobs : j.id \notin {"auto_close", "auto_open"}}
             tz   == _get_tz(cfg)
             o    == _parse_hhmm(cfg.schedule.open_time)
             c    == _parse_hhmm(cfg.schedule.close_time)
             good == o.ok /\ c.ok
         IN  IF ~cfg.schedule.enabled THEN [sched EXCEPT !.jobs = kept]
             ELSE [sched EXCEPT !.jobs = kept \cup
                      { Job("auto_close", IF good THEN c.h ELSE 19, IF good THEN c.m ELSE 0, tz),
                        Job("auto_open", IF good THEN o.h ELSE 10, IF good THEN o.m ELSE 0, tz) }]

\* _add_managed_chat up to its save: the configuration it leaves in memory and
\* whether it goes on to write it
_add_managed_chat(cfg, chat_id) ==
    IF chat_id \in Range(cfg.managed_chats) THEN [cfg |-> cfg, save |-> FALSE]
    ELSE [cfg  |-> [cfg EXCEPT !.managed_chats = SortedInt(Range(@) \cup {chat_id})],
          save |-> TRUE]

\* ------------------------------------------------------------ the updates
NoReplyTo == [some |-> FALSE, text |-> NoneStr, caption |-> NoneStr]
Message(chat, from_user, sender_chat) ==
    [chat |-> chat, from_user |-> from_user, sender_chat |-> sender_chat,
     text |-> NoneStr, caption |-> NoneStr, entities |-> <<>>, caption_entities |-> <<>>,
     media |-> {}, new_chat_members |-> <<>>, reply_to |-> NoReplyTo]

\* what the dispatcher keeps of the update it handled last: the update, the
\* outcomes the environment gave, the transport calls in the order they were
\* issued, the reply, and the exception that left the handler ("" for none)
Idle == [kind |-> "idle"]
NoReply == [text |-> "", data |-> <<>>]
Reply(text, data) == [text |-> text, data |-> data]
Trace(kind, msg, args, env, calls, reply, raised) ==
    [kind |-> kind, msg |-> msg, args |-> args, env |-> env, calls |-> calls,
     reply |-> reply, raised |-> raised]
\* the dispatcher is polling and takes the next update
Polling == SCHEDULER.running /\ ev = Idle

\* ------------------------------------------------------- moderation_gate
MediaKinds == {"audio", "video", "voice", "video_note"}
\* the rule of the pipeline that decides a message of a non-exempt sender
gate_rule(msg, re) ==
    LET txt      == text_of(msg)
        entities == msg.entities \o msg.caption_entities
    IN  IF msg.media \cap MediaKinds # {} THEN "media"
        ELSE IF txt # <<>> /\ Len(txt) = 1 THEN "single"
        ELSE IF \/ \E i \in DOMAIN entities : entities[i] \in {"url", "text_link"}
                \/ txt # <<>> /\ URL_RE_search(txt) THEN "link"
        ELSE IF \/ \E i \in DOMAIN entities : entities[i] = "mention"
                \/ txt # <<>> /\ USERNAME_RE_search(txt) THEN "mention"
        ELSE IF re.compiled /\ txt # <<>> /\ RE_search(re, txt) THEN "phrase"
        ELSE "none"
\* the transport calls the rule's branch issues, and how the branch ends
gate_calls(msg, rule) ==
    IF rule = "none" THEN <<>>
    ELSE IF rule = "phrase" /\ msg.from_user # None
    THEN <<Call("delete", msg.chat.id, 0, 0), Call("ban", msg.chat.id, msg.from_user, 0)>>
    ELSE <<Call("delete", msg.chat.id, 0, 0)>>
\* message.from_user.id of a message without from_user (main.py:581)
gate_raised(msg, rule) ==
    IF rule = "phrase" /\ msg.from_user = None THEN "AttributeError" ELSE ""

Ops(calls) == {calls[i].op : i \in DOMAIN calls}
\* the calls of a handler that the transport may fail
Failing(calls) == SUBSET (Ops(calls) \cap {"delete", "ban", "restrict"})

moderation_gate(msg) ==
    /\ UNCHANGED <<perms, unmute_later>>
    /\ Polling
    /\ LET reg == IF msg.chat.type \in {"group", "supergroup"}
                  THEN _add_managed_chat(CONFIG, msg.chat.id)
                  ELSE [cfg |-> CONFIG, save |-> FALSE]
           asks == asks_role(msg.chat.id, msg.from_user, msg.sender_chat)
       IN  \E save \in IF reg.save THEN MaySave ELSE {"unsaved"} :
           /\ CONFIG' = reg.cfg
           /\ disk' = IF reg.save THEN save_config(reg.cfg, disk, save) ELSE disk
           /\ faults' = IF reg.save THEN faults + Failed(save) ELSE faults
           /\ UNCHANGED <<BADWORDS_RE, SCHEDULER>>
           /\ IF reg.save /\ save # "ok"
              THEN ev' = Trace("moderation_gate", msg, NoneStr,
                               [save |-> save, role |-> "unasked", failing |-> {}],
                               <<>>, NoReply, "OSError")
              ELSE \E role \in IF asks THEN Roles ELSE {"unasked"} :
                   LET lookup == is_chat_admin_calls(msg.chat.id, msg.from_user, msg.sender_chat)
                       exempt == is_chat_admin(msg.chat.id, msg.from_user, msg.sender_chat, role)
                       rule   == gate_rule(msg, BADWORDS_RE)
                       calls  == IF exempt THEN lookup ELSE lookup \o gate_calls(msg, rule)
                   IN  \E failing \in Failing(calls) :
                       ev' = Trace("moderation_gate", msg, NoneStr,
                                   [save |-> save, role |-> role, failing |-> failing],
                                   calls, NoReply,
                                   IF exempt THEN "" ELSE gate_raised(msg, rule))

\* ------------------------------------------------------------ commands
\* the role lookup a command made, if it made one
lookup_calls(msg, role) ==
    IF role = "unasked" THEN <<>> ELSE <<Call("get_chat_member", msg.chat.id, msg.from_user, 0)>>
\* a command that changes nothing: it replies and returns
Refuse(kind, msg, args, role, reply) ==
    /\ UNCHANGED <<perms, unmute_later>>
    /\ ev' = Trace(kind, msg, args, [role |-> role, save |-> "unsaved"],
                   lookup_calls(msg, role), reply, "")
    /\ UNCHANGED <<CONFIG, disk, BADWORDS_RE, SCHEDULER, faults>>
Commit_applies_schedule(kind, msg, args, role, cfg, rebuild, reply) ==
    \E save \in MaySave :
        /\ perms' = IF save = "ok" /\ rebuild = "jobs" /\ ~cfg.schedule.enabled
                    THEN [c \in DOMAIN perms |-> [profile |-> "OPEN", asked |-> "OPEN"]]
                    ELSE perms
        /\ UNCHANGED unmute_later
        /\ CONFIG' = cfg
        /\ disk' = save_config(cfg, disk, save)
        /\ faults' = faults + Failed(save)
        /\ BADWORDS_RE' = IF save = "ok" /\ rebuild = "matcher"
                          THEN build_badwords_regex(cfg) ELSE BADWORDS_RE
        /\ SCHEDULER' = IF save = "ok" /\ rebuild = "jobs"
                        THEN _reschedule_jobs(SCHEDULER, cfg) ELSE SCHEDULER
        /\ ev' = Trace(kind, msg, args, [role |-> role, save |-> save], lookup_calls(msg, role),
                       IF save = "ok" THEN reply ELSE NoReply,
                       IF save = "ok" THEN "" ELSE "OSError")
Commit_reply_whatever(kind, msg, args, role, cfg, rebuild, reply) ==
    \E save \in MaySave :
        /\ UNCHANGED <<perms, unmute_later>>
        /\ CONFIG' = cfg
        /\ disk' = save_config(cfg, disk, save)
        /\ faults' = faults + Failed(save)
        /\ BADWORDS_RE' = IF save = "ok" /\ rebuild = "matcher"
                          THEN build_badwords_regex(cfg) ELSE BADWORDS_RE
        /\ SCHEDULER' = IF save = "ok" /\ rebuild = "jobs"
                        THEN _reschedule_jobs(SCHEDULER, cfg) ELSE SCHEDULER
        /\ ev' = Trace(kind, msg, args, [role |-> role, save |-> save], lookup_calls(msg, role),
                       reply, "")
\* the tail of every command that changes the configuration: CONFIG is
\* assigned, save_config(CONFIG) writes it, then the matcher or the jobs are
\* rebuilt from it (rebuild names which), then the reply is sent; a write that
\* raises leaves the handler at that line
Commit(kind, msg, args, role, cfg, rebuild, reply) ==
    \E save \in MaySave :
        /\ UNCHANGED <<perms, unmute_later>>
        /\ CONFIG' = cfg
        /\ disk' = save_config(cfg, disk, save)
        /\ faults' = faults + Failed(save)
        /\ BADWORDS_RE' = IF save = "ok" /\ rebuild = "matcher"
                          THEN build_badwords_regex(cfg) ELSE BADWORDS_RE
        /\ SCHEDULER' = IF save = "ok" /\ rebuild = "jobs"
                        THEN _reschedule_jobs(SCHEDULER, cfg) ELSE SCHEDULER
        /\ ev' = Trace(kind, msg, args, [role |-> role, save |-> save], lookup_calls(msg, role),
                       IF save = "ok" THEN reply ELSE NoReply,
                       IF save = "ok" THEN "" ELSE "OSError")

\* command.args, or the text of the message replied to
source_text(msg, args) ==
    IF args = NoneStr /\ msg.reply_to.some THEN text_of(msg.reply_to) ELSE args
\* the list cmd_add_badword stores: sorted(before.union(words))
add_words(banned_words, words) == SortedStr(Range(banned_words) \cup Range(words))
\* the list cmd_remove_badword stores: sorted(before.difference(words))
remove_words(banned_words, words) == SortedStr(Range(banned_words) \ Range(words))

cmd_add_badword(msg, args) ==
    /\ Polling
    /\ \E role \in ManageRoles(msg) :
       LET words == parse_badword_list(source_text(msg, args))
           added == SortedStr(Range(words) \ Range(CONFIG.banned_words))
       IN  IF ~can_manage(CONFIG, msg, role)
           THEN Refuse("add_badword", msg, args, role, Reply("denied", <<>>))
           ELSE IF words = <<>>
           THEN Refuse("add_badword", msg, args, role, Reply("usage", <<>>))
           ELSE Commit("add_badword", msg, args, role,
                       [CONFIG EXCEPT !.banned_words = add_words(@, words)], "matcher",
                       IF added # <<>> THEN Reply("added", added) ELSE Reply("nothing_new", <<>>))

cmd_remove_badword(msg, args) ==
    /\ Polling
    /\ \E role \in ManageRoles(msg) :
       LET words   == parse_badword_list(source_text(msg, args))
           removed == SortedStr(Range(CONFIG.banned_words) \cap Range(words))
       IN  IF ~can_manage(CONFIG, msg, role)
           THEN Refuse("remove_badword", msg, args, role, Reply("denied", <<>>))
           ELSE IF words = <<>>
           THEN Refuse("remove_badword", msg, args, role, Reply("usage", <<>>))
           ELSE IF removed = <<>>
           THEN Refuse("remove_badword", msg, args, role, Reply("nothing_removed", <<>>))
           ELSE Commit("remove_badword", msg, args, role,
                       [CONFIG EXCEPT !.banned_words = remove_words(@, words)], "matcher",
                       Reply("removed", removed))

\* /add_admin and /remove_admin: a private chat and an operator, nothing else
operator_only(cfg, msg) == is_private(msg) /\ is_superadmin(cfg, msg.from_user)
cmd_add_admin(msg, args) ==
    /\ Polling
    /\ IF ~operator_only(CONFIG, msg)
       THEN Refuse("add_admin", msg, args, "unasked", Reply("denied", <<>>))
       ELSE IF args = NoneStr \/ ~isdigit(strip(args))
       THEN Refuse("add_admin", msg, args, "unasked", Reply("usage", <<>>))
       ELSE LET uid == int(strip(args)).v
            IN  Commit("add_admin", msg, args, "unasked",
                       [CONFIG EXCEPT !.superadmins = SortedInt(Range(@) \cup {uid})], "nothing",
                       Reply("admin_added", <<uid>>))
cmd_remove_admin(msg, args) ==
    /\ Polling
    /\ IF ~operator_only(CONFIG, msg)
       THEN Refuse("remove_admin", msg, args, "unasked", Reply("denied", <<>>))
       ELSE IF args = NoneStr \/ ~isdigit(strip(args))
       THEN Refuse("remove_admin", msg, args, "unasked", Reply("usage", <<>>))
       ELSE LET uid == int(strip(args)).v
            IN  IF uid \in Range(CONFIG.superadmins)
                THEN Commit("remove_admin", msg, args, "unasked",
                            [CONFIG EXCEPT !.superadmins = SortedInt(Range(@) \ {uid})], "nothing",
                            Reply("admin_removed", <<uid>>))
                ELSE Refuse("remove_admin", msg, args, "unasked", Reply("no_such_id", <<>>))

\* max(0, min(1440, minutes))
clamp_minutes(minutes) ==
    IF minutes > 1440 THEN 1440 ELSE IF minutes < 0 THEN 0 ELSE minutes
cmd_newbie_mute_set(msg, args) ==
    /\ Polling
    /\ \E role \in ManageRoles(msg) :
       LET parsed  == int(strip(args))
           minutes == clamp_minutes(parsed.v)
       IN  IF ~can_manage(CONFIG, msg, role)
           THEN Refuse("set_newbie_mute", msg, args, role, Reply("denied", <<>>))
           ELSE IF args = NoneStr
           THEN Refuse("set_newbie_mute", msg, args, role, Reply("usage", <<>>))
           ELSE IF ~parsed.ok
           THEN Refuse("set_newbie_mute", msg, args, role, Reply("not_an_integer", <<>>))
           ELSE Commit("set_newbie_mute", msg, args, role,
                       [CONFIG EXCEPT !.newbie_mute_minutes = minutes], "nothing",
                       Reply("minutes_set", <<minutes>>))

\* ---------------------------------------------------- schedule commands
\* what /schedule_show prints
schedule_shown(cfg) ==
    <<cfg.schedule.enabled, cfg.schedule.open_time, cfg.schedule.close_time, cfg.schedule.tz>>
cmd_schedule_show(msg) ==
    /\ Polling
    /\ \E role \in ManageRoles(msg) :
       IF ~can_manage(CONFIG, msg, role)
       THEN Refuse("schedule_show", msg, NoneStr, role, Reply("denied", <<>>))
       ELSE Refuse("schedule_show", msg, NoneStr, role, Reply("schedule", schedule_shown(CONFIG)))

cmd_schedule_set(msg, args) ==
    /\ Polling
    /\ \E role \in ManageRoles(msg) :
       LET parts == split(args)
       IN  IF ~can_manage(CONFIG, msg, role)
           THEN Refuse("schedule_set", msg, args, role, Reply("denied", <<>>))
           ELSE IF args = NoneStr
           THEN Refuse("schedule_set", msg, args, role, Reply("usage", <<>>))
           ELSE IF Len(parts) # 2
           THEN Refuse("schedule_set", msg, args, role, Reply("need_two_times", <<>>))
           ELSE IF ~(_parse_hhmm(parts[1]).ok /\ _parse_hhmm(parts[2]).ok)
           THEN Refuse("schedule_set", msg, args, role, Reply("bad_time_format", <<>>))
           ELSE Commit("schedule_set", msg, args, role,
                       [CONFIG EXCEPT !.schedule.open_time = parts[1],
                                      !.schedule.close_time = parts[2]], "jobs",
                       Reply("times_set", <<parts[1], parts[2]>>))

cmd_schedule_enable(msg) ==
    /\ Polling
    /\ \E role \in ManageRoles(msg) :
       IF ~can_manage(CONFIG, msg, role)
       THEN Refuse("schedule_enable", msg, NoneStr, role, Reply("denied", <<>>))
       ELSE Commit("schedule_enable", msg, NoneStr, role,
                   [CONFIG EXCEPT !.schedule.enabled = TRUE], "jobs", Reply("enabled", <<>>))

cmd_schedule_disable(msg) ==
    /\ Polling
    /\ \E role \in ManageRoles(msg) :
       IF ~can_manage(CONFIG, msg, role)
       THEN Refuse("schedule_disable", msg, NoneStr, role, Reply("denied", <<>>))
       ELSE Commit("schedule_disable", msg, NoneStr, role,
                   [CONFIG EXCEPT !.schedule.enabled = FALSE], "jobs", Reply("disabled", <<>>))

cmd_schedule_tz(msg, args) ==
    /\ Polling
    /\ \E role \in ManageRoles(msg) :
       LET tz == IF strip(args) # <<>> THEN strip(args) ELSE EuropeMoscow
       IN  IF ~can_manage(CONFIG, msg, role)
           THEN Refuse("schedule_tz", msg, args, role, Reply("denied", <<>>))
           ELSE IF tz \notin TZDatabase
           THEN Refuse("schedule_tz", msg, args, role, Reply("unknown_timezone", <<>>))
           ELSE Commit("schedule_tz", msg, args, role,
                       [CONFIG EXCEPT !.schedule.tz = tz], "jobs", Reply("timezone_set", <<tz>>))

\* --------------------------------------------------------- on_new_members
Member(id, is_bot) == [id |-> id, is_bot |-> is_bot]
\* whether the loop looks up the role of a joined member, and restricts it
looks_up(member, minutes) == ~member.is_bot /\ minutes > 0
restricts(member, minutes, role) ==
    looks_up(member, minutes) /\ role \notin {"administrator", "creator"}
\* the calls of one turn of the loop over message.new_chat_members
member_calls(chat_id, inviter_id, member, minutes, role, now) ==
    IF member.is_bot
    THEN <<Call("ban", chat_id, member.id, 0)>>
         \o (IF inviter_id # None THEN <<Call("ban", chat_id, inviter_id, 0)>> ELSE <<>>)
    ELSE IF minutes > 0
    THEN <<Call("get_chat_member", chat_id, member.id, 0)>>
         \o (IF role \in {"administrator", "creator"} THEN <<>>
             ELSE <<Call("restrict", chat_id, member.id, now + minutes)>>)
    ELSE <<>>
RECURSIVE members_calls(_, _, _, _, _, _)
members_calls(chat_id, inviter_id, members, minutes, roles, nows) ==
    IF members = <<>> THEN <<>>
    ELSE member_calls(chat_id, inviter_id, Head(members), minutes, Head(roles), Head(nows))
         \o members_calls(chat_id, inviter_id, Tail(members), minutes, Tail(roles), Tail(nows))

\* the sequences that take their i-th element from S[i]
RECURSIVE Choices(_)
Choices(S) ==
    IF S = <<>> THEN {<<>>}
    ELSE {<<h>> \o t : h \in Head(S), t \in Choices(Tail(S))}
\* the outcomes of the role lookups of a join event, one per member
MemberRoles(members, minutes) ==
    Choices([i \in DOMAIN members |->
                IF looks_up(members[i], minutes) THEN Roles ELSE {"unasked"}])
\* the readings of datetime.now at the members' restrictions: the clock does
\* not run backwards
MemberNows(members, minutes, roles) ==
    {t \in Choices([i \in DOMAIN members |->
                       IF restricts(members[i], minutes, roles[i]) THEN 0..MaxNow ELSE {0}]) :
        \A i, j \in DOMAIN members :
            (i < j /\ restricts(members[i], minutes, roles[i])
                   /\ restricts(members[j], minutes, roles[j])) => t[i] <= t[j]}

on_new_members(msg) ==
    /\ UNCHANGED <<perms, unmute_later>>
    /\ Polling
    /\ LET reg == _add_managed_chat(CONFIG, msg.chat.id)
           minutes == reg.cfg.newbie_mute_minutes
       IN  \E save \in IF reg.save THEN MaySave ELSE {"unsaved"} :
           /\ CONFIG' = reg.cfg
           /\ disk' = IF reg.save THEN save_config(reg.cfg, disk, save) ELSE disk
           /\ faults' = IF reg.save THEN faults + Failed(save) ELSE faults
           /\ UNCHANGED <<BADWORDS_RE, SCHEDULER>>
           /\ IF reg.save /\ save # "ok"
              THEN ev' = Trace("new_members", msg, NoneStr,
                               [save |-> save, roles |-> <<>>, nows |-> <<>>, failing |-> {}],
                               <<>>, NoReply, "OSError")
              ELSE \E roles \in MemberRoles(msg.new_chat_members, minutes) :
                   \E nows \in MemberNows(msg.new_chat_members, minutes, roles) :
                   LET calls == <<Call("delete", msg.chat.id, 0, 0)>>
                                \o members_calls(msg.chat.id, msg.from_user, msg.new_chat_members,
                                                 minutes, roles, nows)
                   IN  \E failing \in Failing(calls) :
                       ev' = Trace("new_members", msg, NoneStr,
                                   [save |-> save, roles |-> roles, nows |-> nows,
                                    failing |-> failing],
                                   calls, NoReply, "")

\* ------------------------------------------------------------- the inputs
\* times, phrases, command arguments and message texts the updates carry
T0915 == <<"0", "9", ":", "1", "5">>
T2145 == <<"2", "1", ":", "4", "5">>
T2500 == <<"2", "5", ":", "0", "0">>
T1060 == <<"1", "0", ":", "6", "0">>
T95 == <<"9", ":", "5">>
Tabc == <<"a", "b", "c">>
Spam == <<"s", "p", "a", "m">>
BadWord == <<"b", "a", "d", " ", "w", "o", "r", "d">>
X == <<"x">>
ArgSpam == <<"s", "p", "a", "m">>
ArgSpamUpper == <<" ", "S", "P", "A", "M", " ">>
ArgList == <<"B", "a", "d", " ", "W", "o", "r", "d", ";", "x">>
ArgListLower == <<"b", "a", "d", " ", "w", "o", "r", "d", ",", "\n", "x">>
ArgSeps == <<" ", ";", " ">>
TxtX == <<" ", "x">>
TxtLink == <<"t", ".", "m", "e", "/", "a">>
TxtHttp == <<"s", "e", "e", " ", "H", "T", "T", "P", "S", ":", "/", "/", "a">>
TxtBareHost == <<"t", ".", "m", "e", "/", " ", "a">>
TxtMention == <<"@", "a", "b", "c", "d", "e">>
TxtShortHandle == <<"@", "a", "b", "c">>
TxtMail == <<"a", "@", "a", "b", "c", "d", "e">>
TxtSpam == <<"b", "u", "y", " ", "S", "P", "A", "M">>
TxtSpammer == <<"s", "p", "a", "m", "m", "e", "r">>
TxtBadWord == <<"a", " ", "B", "a", "d", " ", "w", "o", "r", "d">>
TxtLinkSpam == <<"s", "p", "a", "m", " ", "t", ".", "m", "e", "/", "a">>
TxtMentionSpam == <<"s", "p", "a", "m", " ", "@", "a", "b", "c", "d", "e">>
TxtHi == <<"h", "i">>


\* the chats and who writes in them: a user, the chat itself (an anonymous
\* administrator), another chat with or without a user standing in for it
G1 == [id |-> -1001, type |-> "supergroup"]
G2 == [id |-> -1002, type |-> "group"]
Private(u) == [id |-> u, type |-> "private"]
Senders(chat) ==
    IF chat.type = "private" THEN {<<chat.id, None>>}
    ELSE {<<12, None>>, <<None, chat.id>>, <<None, -2000>>}
From(chat) == {Message(chat, s[1], s[2]) : s \in Senders(chat)}

Body(text, caption) == [text |-> text, caption |-> caption]
Bodies ==
    {Body(t, NoneStr) : t \in {NoneStr, TxtX, TxtLink, TxtHttp, TxtBareHost, TxtMention,
                               TxtShortHandle, TxtMail, TxtSpam, TxtSpammer, TxtBadWord,
                               TxtLinkSpam, TxtMentionSpam, TxtHi}}
    \cup {Body(NoneStr, t) : t \in {TxtSpam, TxtLink}}
Marks(entities, caption_entities) == [entities |-> entities, caption_entities |-> caption_entities]
Annotations ==
    {Marks(e, <<>>) : e \in {<<>>, <<"url">>, <<"text_link">>, <<"mention">>, <<"bold">>}}
    \cup {Marks(<<>>, <<"url">>), Marks(<<"bold">>, <<"mention">>)}
\* the contents of a message: every text, every annotation on a clean and on a
\* banned text, and every kind of media alone and with a banned caption
Contents ==
    {[body |-> b, marks |-> Marks(<<>>, <<>>), media |-> {}] : b \in Bodies}
    \cup {[body |-> b, marks |-> a, media |-> {}] :
             b \in {Body(TxtHi, NoneStr), Body(TxtSpam, NoneStr)}, a \in Annotations}
    \cup {[body |-> b, marks |-> Marks(<<>>, <<>>), media |-> {k}] :
             b \in {Body(NoneStr, NoneStr), Body(NoneStr, TxtSpam)},
             k \in MediaKinds \cup {"photo"}}
With(m, c) ==
    [m EXCEPT !.text = c.body.text, !.caption = c.body.caption,
              !.entities = c.marks.entities, !.caption_entities = c.marks.caption_entities,
              !.media = c.media]
GateMessages == {With(m, c) : m \in From(G1) \cup From(Private(12)), c \in Contents}

\* who sends the commands, and the arguments they give
Commanders == From(G1) \cup From(Private(11)) \cup From(Private(12))
Replying(m, text) == [m EXCEPT !.reply_to = [some |-> TRUE, text |-> text, caption |-> NoneStr]]
PhraseArgs == {NoneStr, ArgSpamUpper, ArgList, ArgListLower, ArgSeps}
PhraseCommands ==
    {<<m, a>> : m \in Commanders, a \in PhraseArgs}
    \cup {<<Replying(m, ArgSpam), NoneStr>> : m \in Commanders}

\* ------------------------------------------------------------- the start
\* config.json at the start: none, or a document edited by hand
DocEdited ==
    Document([banned_words |-> <<X, <<"S", "p", "a", "m">>, X>>, newbie_mute_minutes |-> -3,
              superadmins |-> <<12>>,
              schedule |-> [enabled |-> FALSE, open_time |-> T0915, close_time |-> T2145, tz |-> UTC],
              managed_chats |-> <<>>], {"managed_chats"})
InitDocs == {Missing, DocEdited}

\* the chats the transport knows, and what it holds for a chat whose
\* permissions the bot has not set: the profile the chat has, no call yet
Chats == {G1.id, G2.id}
Unset == [profile |-> "OPEN", asked |-> "none"]
\* the module is imported: CONFIG and BADWORDS_RE are built, nothing runs yet
Init ==
    /\ disk \in InitDocs
    /\ CONFIG = load_config(disk)
    /\ BADWORDS_RE = build_badwords_regex(CONFIG)
    /\ SCHEDULER = NoScheduler
    /\ ev = Idle
    /\ faults = 0
    /\ perms = [c \in Chats |-> Unset]
    /\ unmute_later = <<>>

\* main(): the scheduler starts, the jobs are armed, polling begins
main ==
    /\ UNCHANGED <<perms, unmute_later>>
    /\ ~SCHEDULER.running
    /\ SCHEDULER' = _reschedule_jobs([running |-> TRUE, jobs |-> {}], CONFIG)
    /\ UNCHANGED <<CONFIG, disk, BADWORDS_RE, ev, faults>>

\* the handler has returned (or raised into the dispatcher, which logs the
\* exception): the dispatcher goes on to the next update
NextUpdate ==
    /\ UNCHANGED <<perms, unmute_later>>
    /\ ev # Idle
    /\ ev' = Idle
    /\ UNCHANGED <<CONFIG, disk, BADWORDS_RE, SCHEDULER, faults>>

\* the arguments of the schedule commands
Sp == <<" ">>
ScheduleArgs ==
    {NoneStr, T0915 \o Sp \o T2145, Sp \o T2145 \o Sp \o Sp \o T95, T2500 \o Sp \o T0915,
     T0915 \o Sp \o T1060, Tabc \o Sp \o T0915, T0915, T0915 \o Sp \o T2145 \o Sp \o T95}
TzArgs == {NoneStr, Sp \o UTC \o Sp, Tabc}
\* the arguments of /set_newbie_mute, and of /add_admin and /remove_admin
N0 == <<"0">>
N5 == <<" ", "5">>
N2000 == <<"2", "0", "0", "0">>
Nminus3 == <<"-", "3">>
N11 == <<"1", "1">>
N12 == <<"1", "2", " ">>
N13 == <<"1", "3">>
MinuteArgs == {NoneStr, N0, N5, N2000, Nminus3, Tabc}
AdminArgs == {NoneStr, N11, N12, N13, Tabc, Nminus3}
\* a join event: who invited (nobody, a user, the member itself) and who joined
H21 == Member(21, FALSE)
H22 == Member(22, FALSE)
B31 == Member(31, TRUE)
Joined(chat, inviter_id, members) ==
    [Message(chat, inviter_id, None) EXCEPT !.new_chat_members = members]
Joins ==
    {Joined(chat, inviter_id, members) :
        chat \in {G1, G2}, inviter_id \in {None, 12, 21},
        members \in {<<H21>>, <<B31>>, <<B31, H21>>, <<H21, H22>>}}

HandleMessage == \E m \in GateMessages : moderation_gate(m)
HandleAddBadword == \E c \in PhraseCommands : cmd_add_badword(c[1], c[2])
HandleRemoveBadword == \E c \in PhraseCommands : cmd_remove_badword(c[1], c[2])
HandleAddAdmin == \E m \in Commanders, a \in AdminArgs : cmd_add_admin(m, a)
HandleRemoveAdmin == \E m \in Commanders, a \in AdminArgs : cmd_remove_admin(m, a)
HandleSetNewbieMute == \E m \in Commanders, a \in MinuteArgs : cmd_newbie_mute_set(m, a)
HandleScheduleShow == \E m \in Commanders : cmd_schedule_show(m)
HandleScheduleSet == \E m \in Commanders, a \in ScheduleArgs : cmd_schedule_set(m, a)
HandleScheduleEnable == \E m \in Commanders : cmd_schedule_enable(m)
HandleScheduleDisable == \E m \in Commanders : cmd_schedule_disable(m)
HandleScheduleTz == \E m \in Commanders, a \in TzArgs : cmd_schedule_tz(m, a)
HandleNewMembers == \E m \in Joins : on_new_members(m)

\* the moderation of messages under a changing phrase list
NextModeration ==
    \/ main
    \/ NextUpdate
    \/ HandleMessage
    \/ HandleAddBadword
    \/ HandleRemoveBadword
SpecModeration == Init /\ [][NextModeration]_vars

\* the schedule commands and the jobs they arm
NextSchedule ==
    \/ main
    \/ NextUpdate
    \/ HandleScheduleShow
    \/ HandleScheduleSet
    \/ HandleScheduleEnable
    \/ HandleScheduleDisable
    \/ HandleScheduleTz
SpecSchedule == Init /\ [][NextSchedule]_vars

\* join events under a changing mute length
NextJoin ==
    \/ main
    \/ NextUpdate
    \/ HandleSetNewbieMute
    \/ HandleNewMembers
SpecJoin == Init /\ [][NextJoin]_vars

\* the commands that take an argument, given arguments they should and should
\* not accept
Tminus030 == <<"-", "0", ":", "3", "0">>
T1230x == <<"1", "2", ":", "3", "0", ":", "0", "0">>
TimesArgs ==
    {NoneStr, T0915 \o Sp \o T2145, Tminus030 \o Sp \o T2145, T2500 \o Sp \o T0915,
     T0915 \o Sp \o T1230x, T0915, Tabc \o Sp \o T0915}
IdArgs == {NoneStr, N12, Tabc, Nminus3}
Arguers == {Message(G1, 12, None), Message(Private(11), 11, None), Message(Private(12), 12, None)}
NextArguments ==
    \/ main
    \/ NextUpdate
    \/ \E m \in Arguers, a \in IdArgs : cmd_add_admin(m, a)
    \/ \E m \in Arguers, a \in IdArgs : cmd_remove_admin(m, a)
    \/ \E m \in Arguers, a \in MinuteArgs : cmd_newbie_mute_set(m, a)
    \/ \E m \in Arguers, a \in TimesArgs : cmd_schedule_set(m, a)
    \/ \E m \in Arguers, a \in TzArgs : cmd_schedule_tz(m, a)
SpecArguments == Init /\ [][NextArguments]_vars

\* ------------------------------------------------------- the timer jobs
\* set_chat_permissions(chat_id, profile) at the transport: the chat takes the
\* profile unless the call fails; the transport has been asked either way
set_chat_permissions(p, chat_id, profile, fails) ==
    IF chat_id \notin DOMAIN p THEN p
    ELSE IF fails THEN [p EXCEPT ![chat_id].asked = profile]
    ELSE [p EXCEPT ![chat_id] = [profile |-> profile, asked |-> profile]]
RECURSIVE set_each_until_failure(_, _, _)
set_each_until_failure(chats, profile, failing) ==
    IF chats = <<>> THEN <<>>
    ELSE IF Head(chats) \in failing
         THEN <<Call("set_chat_permissions", Head(chats), 0, profile)>>
         ELSE <<Call("set_chat_permissions", Head(chats), 0, profile)>>
              \o set_each_until_failure(Tail(chats), profile, failing)
\* close_all / open_all: the calls of the loop over CONFIG["managed_chats"];
\* _set_chat_closed / _set_chat_open swallow the failure of a call
RECURSIVE set_each(_, _, _)
set_each(chats, profile, failing) ==
    IF chats = <<>> THEN <<>>
    ELSE <<Call("set_chat_permissions", Head(chats), 0, profile)>>
         \o set_each(Tail(chats), profile, failing)
RECURSIVE after_calls(_, _, _)
after_calls(p, calls, failing) ==
    IF calls = <<>> THEN p
    ELSE after_calls(set_chat_permissions(p, Head(calls).chat, Head(calls).arg,
                                          Head(calls).chat \in failing),
                     Tail(calls), failing)
\* the job id fires: the scheduler runs the coroutine armed under that id
fires(id, profile) ==
    /\ Polling
    /\ \E j \in SCHEDULER.jobs : j.id = id
    /\ \E failing \in SUBSET Range(CONFIG.managed_chats) :
       LET calls == set_each(CONFIG.managed_chats, profile, failing)
       IN  /\ perms' = after_calls(perms, calls, failing)
           /\ ev' = Trace(id, CHOOSE j \in SCHEDULER.jobs : j.id = id, NoneStr,
                          [failing |-> failing], calls, NoReply, "")
    /\ UNCHANGED <<CONFIG, disk, BADWORDS_RE, SCHEDULER, faults, unmute_later>>
close_all == fires("auto_close", "RESTRICTED")
open_all == fires("auto_open", "OPEN")

\* ------------------------------------------------------------------ /mute1m
\* cmd_mute_all: outside a group, or for a sender who does not manage it, one
\* reply. Else set_chat_permissions(MUTED_PERMS) and the reply share one try:
\* when either raises, the except branch replies and returns; only when both
\* went through is the unmute_later task created. failing names what the
\* transport fails in this run of the handler.
cmd_mute_all(msg) ==
    /\ Polling
    /\ Len(unmute_later) < MaxPending
    /\ \E role \in ManageRoles(msg) :
       IF is_private(msg) \/ ~can_manage(CONFIG, msg, role)
       THEN Refuse("mute1m", msg, NoneStr, role, Reply("groups_only", <<>>))
       ELSE \E failing \in SUBSET {"set_chat_permissions", "reply_muted", "reply_failed"} :
            LET set_ok  == "set_chat_permissions" \notin failing
                muted   == set_ok /\ "reply_muted" \notin failing
                said    == IF muted THEN Reply("muted", <<>>)
                           ELSE IF "reply_failed" \notin failing THEN Reply("mute_failed", <<>>)
                           ELSE NoReply
            IN  /\ perms' = set_chat_permissions(perms, msg.chat.id, "RESTRICTED", ~set_ok)
                /\ unmute_later' = IF muted THEN Append(unmute_later, msg.chat.id)
                                   ELSE unmute_later
                /\ ev' = Trace("mute1m", msg, NoneStr, [role |-> role, failing |-> failing],
                               lookup_calls(msg, role)
                                   \o <<Call("set_chat_permissions", msg.chat.id, 0, "RESTRICTED")>>,
                               said,
                               IF ~muted /\ "reply_failed" \in failing
                               THEN "TelegramAPIError" ELSE "")
                /\ UNCHANGED <<CONFIG, disk, BADWORDS_RE, SCHEDULER, faults>>
\* the oldest unmute_later task wakes from asyncio.sleep(60) and calls
\* set_chat_permissions(UNMUTED_PERMS); an exception of the call is logged
unmute_later_wakes ==
    /\ Polling
    /\ unmute_later # <<>>
    /\ \E fails \in BOOLEAN :
       /\ perms' = set_chat_permissions(perms, Head(unmute_later), "OPEN", fails)
       /\ ev' = Trace("unmute_later", Head(unmute_later), NoneStr,
                      [failing |-> IF fails THEN {"set_chat_permissions"} ELSE {}],
                      <<Call("set_chat_permissions", Head(unmute_later), 0, "OPEN")>>,
                      NoReply, "")
    /\ unmute_later' = Tail(unmute_later)
    /\ UNCHANGED <<CONFIG, disk, BADWORDS_RE, SCHEDULER, faults>>

\* ---------------------------------------------------- concurrent handlers
\* The dispatcher runs handlers as tasks of one event loop: a handler runs alone
\* from one await to the next. A command awaits the role lookup of can_manage
\* (in a group), then reads and assigns CONFIG, saves and rebuilds without an
\* await, then awaits its reply; moderation_gate and on_new_members register the
\* chat before their first await.
Op(kind, msg, args) == [kind |-> kind, msg |-> msg, args |-> args]
\* whether the handler awaits a role lookup before it touches CONFIG
awaits_lookup(op) ==
    /\ op.kind \notin {"observe", "add_admin", "remove_admin"}
    /\ ~is_private(op.msg)
    /\ asks_role(op.msg.chat.id, op.msg.from_user, op.msg.sender_chat)
\* the synchronous part of a handler: the configuration it leaves in memory,
\* whether it writes it, and what it rebuilds after the write
Kept(cfg) == [cfg |-> cfg, save |-> FALSE, rebuild |-> "nothing"]
Changed(cfg, rebuild) == [cfg |-> cfg, save |-> TRUE, rebuild |-> rebuild]
handle(op, role, cfg) ==
    LET words == parse_badword_list(source_text(op.msg, op.args))
    IN  CASE op.kind = "observe" ->
                 [cfg |-> _add_managed_chat(cfg, op.msg.chat.id).cfg,
                  save |-> _add_managed_chat(cfg, op.msg.chat.id).save, rebuild |-> "nothing"]
          [] op.kind = "add_badword" ->
                 IF can_manage(cfg, op.msg, role) /\ words # <<>>
                 THEN Changed([cfg EXCEPT !.banned_words = add_words(@, words)], "matcher")
                 ELSE Kept(cfg)
          [] op.kind = "remove_badword" ->
                 IF can_manage(cfg, op.msg, role) /\ Range(words) \cap Range(cfg.banned_words) # {}
                 THEN Changed([cfg EXCEPT !.banned_words = remove_words(@, words)], "matcher")
                 ELSE Kept(cfg)
          [] op.kind = "set_newbie_mute" ->
                 IF can_manage(cfg, op.msg, role) /\ op.args # NoneStr /\ int(strip(op.args)).ok
                 THEN Changed([cfg EXCEPT !.newbie_mute_minutes =
                                              clamp_minutes(int(strip(op.args)).v)], "nothing")
                 ELSE Kept(cfg)
          [] op.kind = "add_admin" ->
                 IF operator_only(cfg, op.msg) /\ op.args # NoneStr /\ isdigit(strip(op.args))
                 THEN Changed([cfg EXCEPT !.superadmins =
                                  SortedInt(Range(@) \cup {int(strip(op.args)).v})], "nothing")
                 ELSE Kept(cfg)
          [] op.kind = "remove_admin" ->
                 IF operator_only(cfg, op.msg) /\ op.args # NoneStr /\ isdigit(strip(op.args))
                    /\ int(strip(op.args)).v \in Range(cfg.superadmins)
                 THEN Changed([cfg EXCEPT !.superadmins =
                                  SortedInt(Range(@) \ {int(strip(op.args)).v})], "nothing")
                 ELSE Kept(cfg)
          [] op.kind = "schedule_enable" ->
                 IF can_manage(cfg, op.msg, role)
                 THEN Changed([cfg EXCEPT !.schedule.enabled = TRUE], "jobs") ELSE Kept(cfg)
          [] op.kind = "schedule_disable" ->
                 IF can_manage(cfg, op.msg, role)
                 THEN Changed([cfg EXCEPT !.schedule.enabled = FALSE], "jobs") ELSE Kept(cfg)
\* the configuration a handler reads when it runs its synchronous part: the
\* global CONFIG as it is then
read_config(task, cfg) == cfg
RunningTask(op) == [op |-> op, pc |-> "start", role |-> "unasked"]
Concurrent == ev # Idle /\ ev.kind = "concurrent"

\* two updates arrive and their handlers are started
Dispatch(a, b) ==
    /\ UNCHANGED <<perms, unmute_later>>
    /\ Polling
    /\ ev' = [kind |-> "concurrent", tasks |-> <<RunningTask(a), RunningTask(b)>>,
              cfg0 |-> CONFIG, disk0 |-> disk]
    /\ UNCHANGED <<CONFIG, disk, BADWORDS_RE, SCHEDULER, faults>>
\* get_chat_member returns to the handler
LookupReturns(i) ==
    /\ UNCHANGED <<perms, unmute_later>>
    /\ Concurrent /\ ev.tasks[i].pc = "start" /\ awaits_lookup(ev.tasks[i].op)
    /\ \E role \in Roles :
           ev' = [ev EXCEPT !.tasks[i].pc = "looked_up", !.tasks[i].role = role]
    /\ UNCHANGED <<CONFIG, disk, BADWORDS_RE, SCHEDULER, faults>>
\* the handler runs from there to its next await: it assigns CONFIG, writes
\* config.json and rebuilds
RunsSynchronously(i) ==
    /\ UNCHANGED <<perms, unmute_later>>
    /\ Concurrent
    /\ \/ ev.tasks[i].pc = "looked_up"
       \/ ev.tasks[i].pc = "start" /\ ~awaits_lookup(ev.tasks[i].op)
    /\ LET h == handle(ev.tasks[i].op, ev.tasks[i].role, read_config(ev.tasks[i], CONFIG))
       IN  \E save \in IF h.save THEN MaySave ELSE {"unsaved"} :
           /\ CONFIG' = h.cfg
           /\ disk' = IF h.save THEN save_config(h.cfg, disk, save) ELSE disk
           /\ faults' = IF h.save THEN faults + Failed(save) ELSE faults
           /\ BADWORDS_RE' = IF save = "ok" /\ h.rebuild = "matcher"
                             THEN build_badwords_regex(h.cfg) ELSE BADWORDS_RE
           /\ SCHEDULER' = IF save = "ok" /\ h.rebuild = "jobs"
                           THEN _reschedule_jobs(SCHEDULER, h.cfg) ELSE SCHEDULER
           /\ ev' = [ev EXCEPT !.tasks[i].pc =
                                   IF save \in {"ok", "unsaved"} THEN "awaiting" ELSE "raised"]
\* the reply (or the transport calls of moderation) returns and the handler ends
HandlerReturns(i) ==
    /\ UNCHANGED <<perms, unmute_later>>
    /\ Concurrent /\ ev.tasks[i].pc = "awaiting"
    /\ ev' = [ev EXCEPT !.tasks[i].pc = "done"]
    /\ UNCHANGED <<CONFIG, disk, BADWORDS_RE, SCHEDULER, faults>>
Settled == Concurrent /\ \A i \in DOMAIN ev.tasks : ev.tasks[i].pc \in {"done", "raised"}
Settle ==
    /\ UNCHANGED <<perms, unmute_later>>
    /\ Settled
    /\ ev' = Idle
    /\ UNCHANGED <<CONFIG, disk, BADWORDS_RE, SCHEDULER, faults>>

\* the mutating operations that run concurrently
ConcurrentOps ==
    {Op("observe", Message(G1, 12, None), NoneStr),
     Op("add_badword", Message(G1, 12, None), ArgSpamUpper),
     Op("remove_badword", Message(Private(11), 11, None), ArgSpamUpper),
     Op("set_newbie_mute", Message(Private(12), 12, None), N5),
     Op("add_admin", Message(Private(11), 11, None), N12),
     Op("schedule_disable", Message(G1, 12, None), NoneStr)}
NextConcurrent ==
    \/ main
    \/ \E a, b \in ConcurrentOps : Dispatch(a, b)
    \/ \E i \in 1..2 : LookupReturns(i)
    \/ \E i \in 1..2 : RunsSynchronously(i)
    \/ \E i \in 1..2 : HandlerReturns(i)
    \/ Settle
SpecConcurrent == Init /\ [][NextConcurrent]_vars

\* the timers firing over chats that come to be observed, under a schedule
\* that is switched on and off
Chatter == {[Message(c, 12, None) EXCEPT !.text = TxtHi] : c \in {G1, G2}}
Switchers == {Message(Private(11), 11, None), Message(G1, 12, None)}
NextTimers ==
    \/ main
    \/ NextUpdate
    \/ \E m \in Chatter : moderation_gate(m)
    \/ \E m \in Switchers : cmd_schedule_enable(m)
    \/ \E m \in Switchers : cmd_schedule_disable(m)
    \/ close_all
    \/ open_all
SpecTimers == Init /\ [][NextTimers]_vars

\* config.json as an operator may have left it: load_config takes the schedule
\* fields as they are written and only drops a negative or non-integer
\* newbie_mute_minutes
DocOutOfRange ==
    Document([banned_words |-> <<>>, newbie_mute_minutes |-> 2000, superadmins |-> <<>>,
              schedule |-> [enabled |-> TRUE, open_time |-> T2500, close_time |-> T2145, tz |-> UTC],
              managed_chats |-> <<>>], {})
DocGarbled ==
    Document([banned_words |-> <<>>, newbie_mute_minutes |-> -3, superadmins |-> <<>>,
              schedule |-> [enabled |-> TRUE, open_time |-> T0915, close_time |-> Tabc, tz |-> Tabc],
              managed_chats |-> <<>>], {})
DocUnknownZone ==
    Document([banned_words |-> <<>>, newbie_mute_minutes |-> 0, superadmins |-> <<>>,
              schedule |-> [enabled |-> FALSE, open_time |-> T0915, close_time |-> T2145, tz |-> Tabc],
              managed_chats |-> <<>>], {"newbie_mute_minutes"})
LoadedDocs == {Missing, DocOutOfRange, DocGarbled, DocUnknownZone}
InitLoaded ==
    /\ disk \in LoadedDocs
    /\ CONFIG = load_config(disk)
    /\ BADWORDS_RE = build_badwords_regex(CONFIG)
    /\ SCHEDULER = NoScheduler
    /\ ev = Idle
    /\ faults = 0
    /\ perms = [c \in Chats |-> Unset]
    /\ unmute_later = <<>>
Operator == {Message(Private(11), 11, None)}
LoadedTimes ==
    {NoneStr, T0915 \o Sp \o T2145, Tminus030 \o Sp \o T2145, T2500 \o Sp \o T0915}
NextLoaded ==
    \/ main
    \/ NextUpdate
    \/ \E m \in Operator, a \in MinuteArgs : cmd_newbie_mute_set(m, a)
    \/ \E m \in Operator, a \in LoadedTimes : cmd_schedule_set(m, a)
    \/ \E m \in Operator : cmd_schedule_enable(m)
    \/ \E m \in Operator : cmd_schedule_disable(m)
    \/ \E m \in Operator, a \in TzArgs : cmd_schedule_tz(m, a)
SpecLoaded == InitLoaded /\ [][NextLoaded]_vars

\* group messages by who sent them: a user, nobody, the group itself, another
\* channel; clean, with a link, with a banned phrase
Identities == {<<12, None>>, <<None, None>>, <<None, G1.id>>, <<None, -2000>>}
Identified ==
    {[Message(G1, s[1], s[2]) EXCEPT !.text = t] : s \in Identities, t \in {TxtHi, TxtLink, TxtSpam}}
NextIdentity ==
    \/ main
    \/ NextUpdate
    \/ \E m \in Identified : moderation_gate(m)
    \/ \E m \in Operator : cmd_add_badword(m, ArgSpamUpper)
    \/ \E m \in Operator : cmd_remove_badword(m, ArgSpamUpper)
SpecIdentity == Init /\ [][NextIdentity]_vars

\* /mute1m from an administrator or a member of a group and from the operator in
\* private, between messages that register two groups and the firings of the timers
Muters == {Message(G1, 12, None), Message(Private(11), 11, None)}
NextMute ==
    \/ main
    \/ NextUpdate
    \/ \E m \in Chatter : moderation_gate(m)
    \/ \E m \in Muters : cmd_mute_all(m)
    \/ unmute_later_wakes
    \/ close_all
    \/ open_all
SpecMute == Init /\ [][NextMute]_vars

\* the four commands that change the schedule, between the firings of the
\* timers, /mute1m and its restore, over two registered groups
NextPermissions ==
    \/ main
    \/ NextUpdate
    \/ \E m \in Chatter : moderation_gate(m)
    \/ \E m \in Operator : cmd_schedule_set(m, T0915 \o Sp \o T2145)
    \/ \E m \in Operator : cmd_schedule_enable(m)
    \/ \E m \in Operator : cmd_schedule_disable(m)
    \/ \E m \in Operator : cmd_schedule_tz(m, UTC)
    \/ \E m \in Muters : cmd_mute_all(m)
    \/ unmute_later_wakes
    \/ close_all
    \/ open_all
SpecPermissions == Init /\ [][NextPermissions]_vars

\* every command, with one argument that takes effect and one that does not
FewCommanders == {Message(G1, 12, None), Message(G1, None, G1.id), Message(G1, None, -2000),
                  Message(Private(11), 11, None), Message(Private(12), 12, None)}
Next ==
    \/ main
    \/ NextUpdate
    \/ \E m \in FewCommanders, a \in {ArgSpamUpper} : cmd_add_badword(m, a)
    \/ \E m \in FewCommanders, a \in {ArgSpamUpper} : cmd_remove_badword(m, a)
    \/ \E m \in FewCommanders, a \in {N12, Tabc} : cmd_add_admin(m, a)
    \/ \E m \in FewCommanders, a \in {N12, N11} : cmd_remove_admin(m, a)
    \/ \E m \in FewCommanders, a \in {N5, Tabc} : cmd_newbie_mute_set(m, a)
    \/ \E m \in FewCommanders : cmd_schedule_show(m)
    \/ \E m \in FewCommanders, a \in {T0915 \o Sp \o T2145, T2500 \o Sp \o T0915} : cmd_schedule_set(m, a)
    \/ \E m \in FewCommanders : cmd_schedule_enable(m)
    \/ \E m \in FewCommanders : cmd_schedule_disable(m)
    \/ \E m \in FewCommanders, a \in {Sp \o UTC \o Sp, Tabc} : cmd_schedule_tz(m, a)
    \/ \E m \in {Message(G1, 12, None)}, t \in {TxtSpam, TxtHi} : moderation_gate([m EXCEPT !.text = t])
    \/ \E m \in {Joined(G1, 12, <<B31, H21>>)} : on_new_members(m)
Spec == Init /\ [][Next]_vars

\* ================================================================ claims
\* the transport calls of a trace that delete a message or ban a user
Sanction(c) == c.op \in {"delete", "ban"}
Sanctions(calls) == SelectSeq(calls, Sanction)
Count(calls, op) == Cardinality({i \in DOMAIN calls : calls[i].op = op})
Gated == ev # Idle /\ ev.kind = "moderation_gate"
\* the sender is exempt: the message is posted as the chat itself, or the
\* transport reported the sender's role as administrator or creator
ExemptSender ==
    \/ ev.msg.sender_chat # None /\ ev.msg.sender_chat = ev.msg.chat.id
    \/ ev.env.role \in {"administrator", "creator"}
\* the rules a message matches, each taken alone
MatchesMedia(m) == \E k \in {"audio", "video", "voice", "video_note"} : k \in m.media
MatchesSingle(m) == Len(text_of(m)) = 1
MatchesLink(m) ==
    \/ "url" \in Range(m.entities) \cup Range(m.caption_entities)
    \/ "text_link" \in Range(m.entities) \cup Range(m.caption_entities)
    \/ URL_RE_search(text_of(m))
MatchesMention(m) ==
    \/ "mention" \in Range(m.entities) \cup Range(m.caption_entities)
    \/ USERNAME_RE_search(text_of(m))
MatchesPhrase(m) == BADWORDS_RE.compiled /\ RE_search(BADWORDS_RE, text_of(m))
MatchesSoft(m) == MatchesMedia(m) \/ MatchesSingle(m) \/ MatchesLink(m) \/ MatchesMention(m)
DeleteOf(m) == Call("delete", m.chat.id, 0, 0)
BanOf(m) == Call("ban", m.chat.id, m.from_user, 0)
\* the deletes and bans of the first matching rule
RuleEffects(m) ==
    IF MatchesSoft(m) THEN <<DeleteOf(m)>>
    ELSE IF MatchesPhrase(m) THEN <<DeleteOf(m), BanOf(m)>>
    ELSE <<>>

\* C1 (as claimed): for every message of a non-exempt sender the deletes and bans
\* moderation_gate issues are those of the first matching rule: one delete and
\* no ban for media, a single character, a link or a mention; a delete and a ban
\* of the sender for a banned phrase alone; nothing otherwise.
C1_FirstMatchEffects ==
    (Gated /\ ~ExemptSender) => Sanctions(ev.calls) = RuleEffects(ev.msg)
\* C1: the same, for the messages that carry a sender and reach the pipeline
\* (the registration of the chat did not fail to save).
C1_FirstMatchEffectsOfUsers ==
    (Gated /\ ~ExemptSender /\ ev.raised # "OSError" /\ ev.msg.from_user # None)
        => Sanctions(ev.calls) = RuleEffects(ev.msg)
\* a banned phrase from a sender without from_user: deleted, nobody banned
C1_SenderlessPhrase ==
    /\ Gated /\ ~ExemptSender /\ ev.msg.from_user = None
    /\ ~MatchesSoft(ev.msg) /\ MatchesPhrase(ev.msg)
    /\ Sanctions(ev.calls) = <<DeleteOf(ev.msg)>> /\ ev.raised = "AttributeError"
\* a link with a banned phrase from a user: deleted, not banned
C1_LinkAndPhrase ==
    /\ Gated /\ ~ExemptSender /\ ev.msg.from_user # None
    /\ MatchesLink(ev.msg) /\ MatchesPhrase(ev.msg)
    /\ Sanctions(ev.calls) = <<DeleteOf(ev.msg)>>

\* C2: a message of an exempt sender is neither deleted nor is anybody banned
\* for it, whatever it carries.
C2_ExemptUntouched == (Gated /\ ExemptSender) => Sanctions(ev.calls) = <<>>
\* an administrator's message with a banned phrase, and an anonymous
\* administrator's with media, were handled
C2_ExemptHandled ==
    /\ Gated /\ ev.raised = ""
    /\ \/ ev.env.role = "administrator" /\ MatchesPhrase(ev.msg) /\ ~MatchesSoft(ev.msg)
       \/ ev.msg.sender_chat = ev.msg.chat.id /\ MatchesMedia(ev.msg)

\* C3 (as claimed): when the pipeline's verdict is delete-and-ban, the delete and
\* the ban are each attempted exactly once whatever the outcome of either, and
\* nothing propagates out of the handler.
C3_DeleteAndBanBoth ==
    (Gated /\ ~ExemptSender /\ ev.raised # "OSError"
           /\ ~MatchesSoft(ev.msg) /\ MatchesPhrase(ev.msg))
        => /\ Count(ev.calls, "delete") = 1
           /\ Count(ev.calls, "ban") = 1
           /\ ev.raised = ""
\* C3: the same for the messages that carry a sender.
C3_DeleteAndBanBothOfUsers ==
    (Gated /\ ~ExemptSender /\ ev.raised # "OSError" /\ ev.msg.from_user # None
           /\ ~MatchesSoft(ev.msg) /\ MatchesPhrase(ev.msg))
        => /\ Sanctions(ev.calls) = <<DeleteOf(ev.msg), BanOf(ev.msg)>>
           /\ ev.raised = ""
\* a banned phrase from a sender without from_user: the delete failed, no ban
\* was attempted and AttributeError left the handler
C3_BanNotAttempted ==
    /\ Gated /\ ~ExemptSender /\ ev.msg.from_user = None
    /\ ~MatchesSoft(ev.msg) /\ MatchesPhrase(ev.msg)
    /\ ev.env.failing = {"delete"}
    /\ Count(ev.calls, "delete") = 1 /\ Count(ev.calls, "ban") = 0
    /\ ev.raised = "AttributeError"
\* the delete failed and the ban was still attempted
C3_BanAfterFailedDelete ==
    /\ Gated /\ ev.env.failing = {"delete"}
    /\ Sanctions(ev.calls) = <<DeleteOf(ev.msg), BanOf(ev.msg)>>

\* C4 (as claimed): between commands the compiled matcher is the one built from
\* the phrase list in memory, whether or not the commands' saves succeeded.
C4_MatcherOfList == ev = Idle => BADWORDS_RE = build_badwords_regex(CONFIG)
\* C4: the same as long as no save has failed.
C4_MatcherOfListSaved == faults = 0 => BADWORDS_RE = build_badwords_regex(CONFIG)
\* a save failed in add_badword: the list has the phrase, the matcher has not
C4_StaleMatcher ==
    /\ ev # Idle /\ ev.kind = "add_badword" /\ ev.raised = "OSError"
    /\ Spam \in Range(CONFIG.banned_words)
    /\ BADWORDS_RE # build_badwords_regex(CONFIG)

\* the timers armed for a schedule: none when it is disabled, else auto_open at
\* the opening time and auto_close at the closing time, in the schedule's zone
TimeOf(s) ==
    LET parts == SplitAt(s, {":"}, <<>>)
    IN  <<DigitsValue(parts[1]), DigitsValue(parts[2])>>
TimersOf(schedule) ==
    IF ~schedule.enabled THEN {}
    ELSE {Job("auto_open", TimeOf(schedule.open_time)[1], TimeOf(schedule.open_time)[2], schedule.tz),
          Job("auto_close", TimeOf(schedule.close_time)[1], TimeOf(schedule.close_time)[2], schedule.tz)}
Timers == {j \in SCHEDULER.jobs : j.id \in {"auto_open", "auto_close"}}
\* C5 (as claimed): once the scheduler runs, between commands the armed timers are
\* those of the schedule in memory, whether or not the commands' saves succeeded:
\* none when disabled, the pair at the configured times and zone when enabled.
C5_TimersOfSchedule ==
    (SCHEDULER.running /\ ev = Idle) => Timers = TimersOf(CONFIG.schedule)
\* C5: the same as long as no save has failed.
C5_TimersOfScheduleSaved ==
    (SCHEDULER.running /\ ev = Idle /\ faults = 0) => Timers = TimersOf(CONFIG.schedule)
\* a save failed in schedule_disable: the schedule is off, both timers are armed
C5_StaleTimers ==
    /\ SCHEDULER.running /\ ev # Idle /\ ev.kind = "schedule_disable" /\ ev.raised = "OSError"
    /\ ~CONFIG.schedule.enabled /\ Cardinality(Timers) = 2

\* what the commands change
CommandKinds ==
    {"add_badword", "remove_badword", "add_admin", "remove_admin", "set_newbie_mute",
     "schedule_show", "schedule_set", "schedule_enable", "schedule_disable", "schedule_tz"}
Settings(cfg) ==
    <<cfg.banned_words, cfg.newbie_mute_minutes, cfg.schedule, cfg.superadmins>>
Commanded == ev = Idle /\ ev'.kind \in CommandKinds
\* the sender of the command passes the gate as the configuration stands when
\* the command arrives: an operator in a private chat; in a group an
\* administrator or the owner, by role or by posting as the chat itself
PassesGate(msg, role) ==
    IF msg.chat.type = "private"
    THEN msg.from_user # None /\ msg.from_user \in Range(CONFIG.superadmins)
    ELSE \/ msg.sender_chat # None /\ msg.sender_chat = msg.chat.id
         \/ msg.from_user # None /\ role \in {"administrator", "creator"}
\* C6: a command changes the settings, the persisted document, the matcher or
\* the timers only if its sender passes the gate when it is processed, and the
\* operators only if it is sent in a private chat by a current operator.
C6_GatedChanges ==
    [][Commanded =>
        /\ (<<Settings(CONFIG), disk, BADWORDS_RE, SCHEDULER>>'
                # <<Settings(CONFIG), disk, BADWORDS_RE, SCHEDULER>>)
            => PassesGate(ev'.msg, ev'.env.role)
        /\ CONFIG'.superadmins # CONFIG.superadmins
            => /\ ev'.msg.chat.type = "private"
               /\ ev'.msg.from_user \in Range(CONFIG.superadmins)]_vars
\* a group member and a private non-operator were denied, an operator in a
\* group chat was denied /add_admin, and an operator's /add_admin took effect
C6_Denied ==
    /\ ev # Idle /\ ev.kind \in CommandKinds /\ ev.reply.text = "denied"
    /\ \/ ev.msg.chat.type # "private" /\ ev.env.role = "member" /\ ev.kind = "schedule_set"
       \/ ev.msg.chat.type = "private" /\ ev.kind = "add_admin"

\* the join event handled last
Joining == ev # Idle /\ ev.kind = "new_members"
Members == ev.msg.new_chat_members
\* the outcome of the role lookup for the i-th member, "unasked" without one
RoleOf(i) == IF i \in DOMAIN ev.env.roles THEN ev.env.roles[i] ELSE "unasked"
NowOf(i) == IF i \in DOMAIN ev.env.nows THEN ev.env.nows[i] ELSE 0
CallsFor(op, id) == {k \in DOMAIN ev.calls : ev.calls[k].op = op /\ ev.calls[k].user = id}
\* C7 (as claimed): a joining human is restricted iff the mute length is positive
\* and the role lookup did not succeed with administrator/creator; the
\* restriction is one call for that member expiring the mute length after the
\* processing time; with a mute length of 0 there is no lookup either.
C7_RestrictIff ==
    Joining => \A i \in DOMAIN Members :
        ~Members[i].is_bot =>
            LET minutes == CONFIG.newbie_mute_minutes
                id == Members[i].id
            IN  /\ CallsFor("restrict", id) # {}
                    <=> (minutes > 0 /\ RoleOf(i) \notin {"administrator", "creator"})
                /\ \A k \in CallsFor("restrict", id) :
                       ev.calls[k] = Call("restrict", ev.msg.chat.id, id, NowOf(i) + minutes)
                /\ Cardinality(CallsFor("restrict", id)) <= 1
                /\ minutes = 0 => CallsFor("get_chat_member", id) = {}
\* C7: the same for the join events whose chat was registered without a failed save.
C7_RestrictIffRegistered ==
    (Joining /\ ev.raised = "") => \A i \in DOMAIN Members :
        ~Members[i].is_bot =>
            LET minutes == CONFIG.newbie_mute_minutes
                id == Members[i].id
            IN  /\ CallsFor("restrict", id) # {}
                    <=> (minutes > 0 /\ RoleOf(i) \notin {"administrator", "creator"})
                /\ \A k \in CallsFor("restrict", id) :
                       ev.calls[k] = Call("restrict", ev.msg.chat.id, id, NowOf(i) + minutes)
                /\ Cardinality(CallsFor("restrict", id)) <= 1
                /\ minutes = 0 => CallsFor("get_chat_member", id) = {}
\* a human joined a chat seen for the first time, the save failed, the mute
\* length is positive and nobody was restricted
C7_JoinNotRestricted ==
    /\ Joining /\ ev.raised = "OSError" /\ CONFIG.newbie_mute_minutes > 0
    /\ \E i \in DOMAIN Members : ~Members[i].is_bot
    /\ ev.calls = <<>>

\* C8 (as claimed): a joining bot is banned, its inviter is banned when the event
\* records one, and the bot is not restricted, whatever the mute length and
\* whether or not a ban fails.
C8_BotAndInviterBanned ==
    Joining => \A i \in DOMAIN Members :
        Members[i].is_bot =>
            /\ CallsFor("ban", Members[i].id) # {}
            /\ ev.msg.from_user # None => CallsFor("ban", ev.msg.from_user) # {}
            /\ CallsFor("restrict", Members[i].id) = {}
            /\ CallsFor("get_chat_member", Members[i].id) = {}
\* C8: the same for the join events whose chat was registered without a failed save.
C8_BotAndInviterBannedRegistered ==
    (Joining /\ ev.raised = "") => \A i \in DOMAIN Members :
        Members[i].is_bot =>
            /\ CallsFor("ban", Members[i].id) # {}
            /\ ev.msg.from_user # None => CallsFor("ban", ev.msg.from_user) # {}
            /\ CallsFor("restrict", Members[i].id) = {}
            /\ CallsFor("get_chat_member", Members[i].id) = {}
\* a bot was invited into a chat seen for the first time, the save failed and
\* nobody was banned
C8_BotNotBanned ==
    /\ Joining /\ ev.raised = "OSError" /\ ev.msg.from_user # None
    /\ \E i \in DOMAIN Members : Members[i].is_bot
    /\ ev.calls = <<>>

\* the phrases a phrase command names, and whether its sender may manage
PhrasesOf(e) == Range(parse_badword_list(source_text(e.msg, e.args)))
Phrases(cfg) == Range(cfg.banned_words)
PhraseCommand(kind) ==
    /\ ev = Idle /\ ev'.kind = kind
    /\ can_manage(CONFIG, ev'.msg, ev'.env.role)
    /\ PhrasesOf(ev') # {}
\* C9 (as claimed): adding phrases that are all in the list leaves the phrases as
\* they are and reports that there is nothing new; removing phrases none of which
\* is in the list leaves them as they are and reports that nothing was removed;
\* neither is an error; adding or removing the same phrases again changes nothing.
C9_Idempotent ==
    [][/\ (PhraseCommand("add_badword") /\ PhrasesOf(ev') \subseteq Phrases(CONFIG))
            => /\ Phrases(CONFIG') = Phrases(CONFIG)
               /\ ev'.reply.text = "nothing_new"
               /\ ev'.raised = ""
       /\ (PhraseCommand("remove_badword") /\ PhrasesOf(ev') \cap Phrases(CONFIG) = {})
            => /\ Phrases(CONFIG') = Phrases(CONFIG)
               /\ ev'.reply.text = "nothing_removed"
               /\ ev'.raised = ""
       /\ PhraseCommand("add_badword")
            => add_words(CONFIG'.banned_words, parse_badword_list(source_text(ev'.msg, ev'.args)))
                   = CONFIG'.banned_words
       /\ PhraseCommand("remove_badword")
            => remove_words(CONFIG'.banned_words, parse_badword_list(source_text(ev'.msg, ev'.args)))
                   = CONFIG'.banned_words]_vars
\* C9: the same where the add command's save succeeds.
C9_IdempotentSaved ==
    [][/\ (PhraseCommand("add_badword") /\ ev'.raised # "OSError"
             /\ PhrasesOf(ev') \subseteq Phrases(CONFIG))
            => /\ Phrases(CONFIG') = Phrases(CONFIG)
               /\ ev'.reply.text = "nothing_new"
               /\ ev'.raised = ""
       /\ (PhraseCommand("remove_badword") /\ PhrasesOf(ev') \cap Phrases(CONFIG) = {})
            => /\ Phrases(CONFIG') = Phrases(CONFIG)
               /\ ev'.reply.text = "nothing_removed"
               /\ ev'.raised = ""]_vars
\* a phrase in the list (the matcher, which was not rebuilt, has it) was added
\* again, the save failed and nothing was reported
C9_AddAgainRaised ==
    /\ ev # Idle /\ ev.kind = "add_badword" /\ ev.raised = "OSError" /\ ev.reply = NoReply
    /\ PhrasesOf(ev) # {} /\ PhrasesOf(ev) \subseteq Phrases(CONFIG)
    /\ BADWORDS_RE = build_badwords_regex(CONFIG)

\* a time written HH:MM, in range or with an hour or a minute out of range
WrittenHHMM(s) ==
    /\ Len(s) = 5 /\ s[3] = ":"
    /\ \A i \in {1, 2, 4, 5} : s[i] \in DigitSet
ValidHHMM(s) == WrittenHHMM(s) /\ TimeOf(s)[1] <= 23 /\ TimeOf(s)[2] <= 59
OutOfRangeHHMM(s) == WrittenHHMM(s) /\ ~ValidHHMM(s)
ScheduleCommand(kind) ==
    /\ ev = Idle /\ ev'.kind = kind
    /\ can_manage(CONFIG, ev'.msg, ev'.env.role)
TimesOf(e) == split(e.args)
\* C10: schedule_set with two valid times stores exactly the two strings and
\* nothing else of the schedule, schedule_enable then sets enabled and nothing
\* else, and schedule_show reads back the schedule as stored, so the three in a
\* row read back enabled with the times given; a schedule_set with a time out
\* of range is rejected and leaves the schedule as it was.
C10_ScheduleRoundTrip ==
    [][/\ (ScheduleCommand("schedule_set") /\ Len(TimesOf(ev')) = 2
             /\ ValidHHMM(TimesOf(ev')[1]) /\ ValidHHMM(TimesOf(ev')[2]))
            => CONFIG'.schedule = [CONFIG.schedule EXCEPT !.open_time = TimesOf(ev')[1],
                                                          !.close_time = TimesOf(ev')[2]]
       /\ ScheduleCommand("schedule_enable")
            => CONFIG'.schedule = [CONFIG.schedule EXCEPT !.enabled = TRUE]
       /\ ScheduleCommand("schedule_show")
            => /\ CONFIG' = CONFIG
               /\ ev'.reply.data = <<CONFIG.schedule.enabled, CONFIG.schedule.open_time,
                                     CONFIG.schedule.close_time, CONFIG.schedule.tz>>
       /\ (ScheduleCommand("schedule_set") /\ Len(TimesOf(ev')) = 2
             /\ (OutOfRangeHHMM(TimesOf(ev')[1]) \/ OutOfRangeHHMM(TimesOf(ev')[2])))
            => /\ CONFIG' = CONFIG
               /\ ev'.reply.text = "bad_time_format"]_vars
\* the schedule was set to 09:15 and 21:45 and read back enabled at these times
C10_ReadBack ==
    /\ ev # Idle /\ ev.kind = "schedule_show"
    /\ ev.reply = Reply("schedule", <<TRUE, T0915, T2145, EuropeMoscow>>)
    /\ disk.state = "ok" /\ disk.doc.schedule.open_time = T0915

\* what is written as a number, as an integer, as a time of day
Numeral(s) == s # <<>> /\ \A i \in DOMAIN s : s[i] \in DigitSet
IntegerWritten(s) ==
    \/ Numeral(s)
    \/ Len(s) > 1 /\ s[1] \in {"+", "-"} /\ Numeral(Tail(s))
TimeWritten(s) ==
    LET parts == SplitAt(s, {":"}, <<>>)
    IN  /\ Len(parts) = 2 /\ Numeral(parts[1]) /\ Numeral(parts[2])
        /\ DigitsValue(parts[1]) <= 23 /\ DigitsValue(parts[2]) <= 59
\* the argument of the command is not what the command takes
InvalidArgument(e) ==
    \/ e.kind \in {"add_admin", "remove_admin"} /\ ~Numeral(strip(e.args))
    \/ e.kind = "set_newbie_mute" /\ ~IntegerWritten(strip(e.args))
    \/ e.kind = "schedule_tz" /\ strip(e.args) # <<>> /\ strip(e.args) \notin TZDatabase
    \/ e.kind = "schedule_set"
         /\ \/ Len(split(e.args)) # 2
            \/ \E i \in DOMAIN split(e.args) : ~TimeWritten(split(e.args)[i])
ArgumentKinds ==
    {"add_admin", "remove_admin", "set_newbie_mute", "schedule_tz", "schedule_set"}
Rejections ==
    {"denied", "usage", "not_an_integer", "unknown_timezone", "need_two_times", "bad_time_format"}
\* C11 (as claimed): a command given an argument that is not a number, not an
\* integer, not a known zone, or not two times of day is rejected and leaves the
\* configuration in memory, config.json, the matcher and the timers as they were.
C11_InvalidRejected ==
    [][(ev = Idle /\ ev'.kind \in ArgumentKinds /\ InvalidArgument(ev'))
        => /\ UNCHANGED <<CONFIG, disk, BADWORDS_RE, SCHEDULER>>
           /\ ev'.reply.text \in Rejections]_vars
\* C11: the same for the times that carry no sign.
C11_InvalidRejectedUnsigned ==
    [][(ev = Idle /\ ev'.kind \in ArgumentKinds /\ InvalidArgument(ev')
          /\ \A i \in DOMAIN ev'.args : ev'.args[i] \notin {"+", "-"})
        => /\ UNCHANGED <<CONFIG, disk, BADWORDS_RE, SCHEDULER>>
           /\ ev'.reply.text \in Rejections]_vars
\* -0:30 was taken as an opening time and stored
C11_SignedTimeStored ==
    /\ ev # Idle /\ ev.kind = "schedule_set" /\ ev.reply.text = "times_set"
    /\ CONFIG.schedule.open_time = Tminus030

\* the replies that acknowledge a change
SuccessReplies ==
    {"added", "nothing_new", "removed", "admin_added", "admin_removed", "minutes_set",
     "times_set", "enabled", "disabled", "timezone_set"}
MutatingKinds == CommandKinds \ {"schedule_show"}
Commanding == ev # Idle /\ ev.kind \in MutatingKinds
\* C12: a command acknowledges a change only after its save completed: when the
\* success reply is sent config.json holds the configuration in memory, and a
\* command whose save failed sends no success reply.
C12_PersistBeforeAcknowledge ==
    Commanding =>
        /\ ev.reply.text \in SuccessReplies
            => ev.env.save = "ok" /\ disk = Document(CONFIG, {})
        /\ ev.env.save \in {"unchanged", "partial"} => ev.reply = NoReply
\* a command was acknowledged after an earlier one had failed to save: the
\* document holds both changes
C12_AcknowledgedAfterFailure ==
    /\ Commanding /\ ev.reply.text = "minutes_set" /\ faults = 1
    /\ disk = Document(CONFIG, {}) /\ Spam \in Range(CONFIG.banned_words)
    /\ ~BADWORDS_RE.compiled

\* one operation applied on its own to a configuration and its document: the
\* handler runs to its end and its write completes
Alone(op, role, st) ==
    LET h == handle(op, role, st.cfg)
    IN  [cfg |-> h.cfg, disk |-> IF h.save THEN Document(h.cfg, {}) ELSE st.disk]
\* the two operations applied one after the other, in the order o
InOrder(o) ==
    Alone(ev.tasks[o[2]].op, ev.tasks[o[2]].role,
          Alone(ev.tasks[o[1]].op, ev.tasks[o[1]].role, [cfg |-> ev.cfg0, disk |-> ev.disk0]))
\* C13 (as claimed): two mutating operations whose handlers interleave at their
\* awaits leave in memory and in config.json what the two leave when applied in
\* some serial order, and config.json never holds a partially written document.
C13_Serializable ==
    /\ Concurrent => disk.state # "corrupt"
    /\ Settled => \E o \in {<<1, 2>>, <<2, 1>>} :
                      CONFIG = InOrder(o).cfg /\ disk = InOrder(o).disk
\* C13: the same as long as no write has failed.
C13_SerializableSaved ==
    (Settled /\ faults = 0) =>
        /\ disk.state # "corrupt"
        /\ \E o \in {<<1, 2>>, <<2, 1>>} :
               CONFIG = InOrder(o).cfg /\ disk = InOrder(o).disk
\* two handlers interleaved, both changed the configuration, the write of the
\* second failed half-way and config.json is left truncated
C13_TruncatedDocument ==
    /\ Settled /\ ev.tasks[1].pc = "done" /\ ev.tasks[2].pc = "raised"
    /\ awaits_lookup(ev.tasks[1].op)
    /\ CONFIG = InOrder(<<1, 2>>).cfg /\ CONFIG # InOrder(<<2, 1>>).cfg
    /\ disk.state = "corrupt"

\* the chats of the document, none when it cannot be read
Persisted ==
    IF disk.state = "ok" /\ "managed_chats" \notin disk.unusable
    THEN Range(disk.doc.managed_chats) ELSE {}
NoDuplicates(q) == \A i, j \in DOMAIN q : q[i] = q[j] => i = j
\* the update handled last is a join event or a message in a group, and a
\* delete, ban or restrict was issued for it
Observed ==
    /\ ev # Idle
    /\ \/ ev.kind = "new_members"
       \/ ev.kind = "moderation_gate" /\ ev.msg.chat.type \in {"group", "supergroup"}
SideEffects == {k \in DOMAIN ev.calls : ev.calls[k].op \in {"delete", "ban", "restrict"}}
\* C14 (as claimed): no step removes a chat from managed_chats, the list holds no
\* chat twice, and when a delete, ban or restrict is issued for a join event or
\* a group message the chat is in managed_chats in memory and in config.json.
C14_ManagedChats ==
    [][/\ Range(CONFIG.managed_chats) \subseteq Range(CONFIG'.managed_chats)
       /\ NoDuplicates(CONFIG'.managed_chats)
       /\ (Observed /\ SideEffects # {})'
            => /\ ev'.msg.chat.id \in Range(CONFIG'.managed_chats)
               /\ ev'.msg.chat.id \in Persisted']_vars
\* C14: the same as long as no write has failed.
C14_ManagedChatsSaved ==
    [][faults' = 0 =>
       /\ Range(CONFIG.managed_chats) \subseteq Range(CONFIG'.managed_chats)
       /\ NoDuplicates(CONFIG'.managed_chats)
       /\ (Observed /\ SideEffects # {})'
            => /\ ev'.msg.chat.id \in Range(CONFIG'.managed_chats)
               /\ ev'.msg.chat.id \in Persisted']_vars
\* a banned phrase in a group was deleted and its sender banned while the
\* document does not list the chat: its registration had failed to save
C14_ModeratedUnpersisted ==
    /\ Observed /\ ev.kind = "moderation_gate" /\ Cardinality(SideEffects) = 2
    /\ ev.msg.chat.id \in Range(CONFIG.managed_chats)
    /\ disk.state = "ok" /\ ev.msg.chat.id \notin Persisted

Fired == ev # Idle /\ ev.kind \in {"auto_open", "auto_close"}
ProfileOf(kind) == IF kind = "auto_open" THEN "OPEN" ELSE "RESTRICTED"
\* C15: a firing of the open (close) timer issues one set-permissions call with
\* the OPEN (RESTRICTED) profile for every chat that is in managed_chats when it
\* fires, whichever of the calls fail, and nothing propagates out of the job.
C15_FiringReachesEveryChat ==
    Fired =>
        /\ \A c \in Range(CONFIG.managed_chats) :
               Cardinality({k \in DOMAIN ev.calls :
                               ev.calls[k] = Call("set_chat_permissions", c, 0, ProfileOf(ev.kind))}) = 1
        /\ Len(ev.calls) = Cardinality(Range(CONFIG.managed_chats))
        /\ ev.raised = ""
\* the close timer fired over two chats observed after it was armed; the call
\* for the first failed and the second chat was closed all the same
C15_SecondChatClosed ==
    /\ Fired /\ ev.kind = "auto_close" /\ Len(CONFIG.managed_chats) = 2
    /\ ev.env.failing = {CONFIG.managed_chats[1]}
    /\ perms[CONFIG.managed_chats[1]].profile = "OPEN"
    /\ perms[CONFIG.managed_chats[2]].profile = "RESTRICTED"

\* the rearm step runs: in main, and in a schedule command once it has saved
Rearms ==
    \/ ~SCHEDULER.running /\ SCHEDULER'.running
    \/ /\ ev = Idle
       /\ ev'.kind \in {"schedule_set", "schedule_enable", "schedule_disable", "schedule_tz"}
       /\ ev'.env.save = "ok"
WellFormed(schedule) == TimeWritten(schedule.open_time) /\ TimeWritten(schedule.close_time)
Unsigned(schedule) ==
    \A t \in {schedule.open_time, schedule.close_time} : \A i \in DOMAIN t : t[i] \notin {"+", "-"}
\* the pair of times the rearm step is to use: the stored pair when both are
\* times of day, else the pair stored before when that was one, else 10:00/19:00
PairToArm(before, after) ==
    IF WellFormed(after) THEN <<TimeOf(after.open_time), TimeOf(after.close_time)>>
    ELSE IF WellFormed(before) THEN <<TimeOf(before.open_time), TimeOf(before.close_time)>>
    ELSE <<(<<10, 0>>), (<<19, 0>>)>>
ZoneToArm(schedule) == IF schedule.tz \in TZDatabase THEN schedule.tz ELSE EuropeMoscow
TimersToArm(before, after) ==
    {Job("auto_open", PairToArm(before, after)[1][1], PairToArm(before, after)[1][2], ZoneToArm(after)),
     Job("auto_close", PairToArm(before, after)[2][1], PairToArm(before, after)[2][2], ZoneToArm(after))}
\* C16 (as claimed): when the rearm step runs with the schedule enabled, it does
\* not raise and arms both timers: at the stored times in the stored zone when
\* they are valid, else at the last valid pair, or 10:00 / 19:00 when there was
\* none, and in Europe/Moscow when the stored zone is unknown.
C16_RearmFallsBack ==
    [][(Rearms /\ CONFIG'.schedule.enabled)
        => /\ ev' = Idle \/ ev'.raised = ""
           /\ Timers' = TimersToArm(CONFIG.schedule, CONFIG'.schedule)]_vars
\* C16: the same for stored times that carry no sign; such a pair, once it is
\* two times of day, stays so, and before that no valid pair was known.
C16_RearmFallsBackUnsigned ==
    [][/\ (Unsigned(CONFIG.schedule) /\ WellFormed(CONFIG.schedule) /\ Unsigned(CONFIG'.schedule))
            => WellFormed(CONFIG'.schedule)
       /\ (Rearms /\ CONFIG'.schedule.enabled /\ Unsigned(CONFIG'.schedule))
            => /\ ev' = Idle \/ ev'.raised = ""
               /\ Timers' = TimersToArm(CONFIG.schedule, CONFIG'.schedule)]_vars
\* -0:30 is stored as the opening time and the opening timer is armed at 00:30
C16_SignedTimeArmed ==
    /\ SCHEDULER.running /\ CONFIG.schedule.enabled
    /\ CONFIG.schedule.open_time = Tminus030
    /\ \E j \in Timers : j.id = "auto_open" /\ j.hour = 0 /\ j.minute = 30
\* 25:00 was loaded as the opening time: both timers are armed at 10:00 / 19:00
C16_DefaultsArmed ==
    /\ SCHEDULER.running /\ CONFIG.schedule.enabled
    /\ CONFIG.schedule.open_time = T2500 /\ CONFIG.schedule.close_time = T2145
    /\ Timers = {Job("auto_open", 10, 0, UTC), Job("auto_close", 19, 0, UTC)}

\* C17: newbie_mute_minutes is an integer from 0 to 1440 in every state, whatever
\* config.json held when it was loaded and whatever set_newbie_mute was given.
C17_MinutesInRange == CONFIG.newbie_mute_minutes \in 0..1440
\* C17: the same for the values set_newbie_mute stores.
C17_SetMinutesInRange ==
    [][(ev = Idle /\ ev'.kind = "set_newbie_mute" /\ ev'.reply.text \notin Rejections)
        => CONFIG'.newbie_mute_minutes \in 0..1440]_vars
\* config.json held 2000 and the bot runs with 2000 minutes
C17_LoadedUnclamped == SCHEDULER.running /\ CONFIG.newbie_mute_minutes = 2000

\* the message names no user and is not sent in the name of its own chat
Unidentified(msg) == msg.from_user = None /\ msg.sender_chat # msg.chat.id
\* moderation_gate got as far as is_chat_admin
AskedWhetherAdmin == ev # Idle /\ ev.kind = "moderation_gate" /\ ev.env.save \in {"ok", "unsaved"}
Deleted == \E i \in DOMAIN ev.calls : ev.calls[i].op = "delete"
\* C18: for a message without a sender, and when the role lookup fails,
\* is_chat_admin returns false without raising: the role of nobody is asked for,
\* the rules are applied, and a message that breaks one is deleted; an exception
\* is raised only further on, after that delete.
C18_FailsClosed ==
    (AskedWhetherAdmin /\ (Unidentified(ev.msg) \/ ev.env.role = "error"))
        => /\ Unidentified(ev.msg) =>
                  \A i \in DOMAIN ev.calls : ev.calls[i].op # "get_chat_member"
           /\ (gate_rule(ev.msg, BADWORDS_RE) # "none") => Deleted
           /\ (ev.raised # "") => Deleted
\* a link sent by nobody was deleted
C18_SenderlessLinkDeleted ==
    /\ AskedWhetherAdmin /\ ev.msg.from_user = None /\ ev.msg.sender_chat = None
    /\ ev.msg.text = TxtLink /\ Deleted

\* every joined bot has its ban and every joined user under a mute has its lookup
MembersProcessed ==
    \A i \in DOMAIN ev.msg.new_chat_members :
        LET member == ev.msg.new_chat_members[i]
        IN  \E k \in DOMAIN ev.calls :
                \/ member.is_bot /\ ev.calls[k] = Call("ban", ev.msg.chat.id, member.id, 0)
                \/ ~member.is_bot /\ CONFIG.newbie_mute_minutes > 0
                     /\ ev.calls[k] = Call("get_chat_member", ev.msg.chat.id, member.id, 0)
                \/ ~member.is_bot /\ CONFIG.newbie_mute_minutes = 0
DeleteFirst ==
    /\ ev.calls # <<>> /\ ev.calls[1] = Call("delete", ev.msg.chat.id, 0, 0)
    /\ \A k \in DOMAIN ev.calls : k > 1 => ev.calls[k].op \in {"ban", "get_chat_member", "restrict"}
\* C19 (as claimed): whenever members join, in a chat already managed or not,
\* the delete of the service message is the first call of the handler, before
\* any ban, lookup or restrict, and the members are processed whether or not
\* that delete fails.
C19_JoinDeleteFirst == Joining => DeleteFirst /\ MembersProcessed
\* C19: the same for the joins whose chat was registered and saved.
C19_JoinDeleteFirstSaved ==
    (Joining /\ ev.env.save \in {"ok", "unsaved"}) => DeleteFirst /\ MembersProcessed
\* the chat was new and its registration failed to save: nothing was deleted
C19_JoinNotDeleted ==
    /\ Joining /\ ev.raised = "OSError" /\ ev.calls = <<>>
    /\ ev.msg.chat.id \in Range(CONFIG.managed_chats)
\* the delete failed and the joined user was restricted all the same
C19_RestrictedAfterFailedDelete ==
    /\ Joining /\ "delete" \in ev.env.failing
    /\ \E k \in DOMAIN ev.calls : ev.calls[k].op = "restrict"

\* the set-permissions calls of an event that the transport carried out
Carried(e) ==
    IF e.kind \in {"mute1m", "unmute_later"}
    THEN {c \in Range(e.calls) : c.op = "set_chat_permissions"
                                   /\ "set_chat_permissions" \notin e.env.failing}
    ELSE IF e.kind \in {"auto_open", "auto_close"}
    THEN {c \in Range(e.calls) : c.chat \notin e.env.failing}
    ELSE {}
\* the chat's permissions are those of the last set-permissions call carried out
LastWriteWins ==
    \A c \in Chats :
        IF \E k \in Carried(ev') : k.chat = c
        THEN \A k \in Carried(ev') : k.chat = c => perms'[c].profile = k.arg
        ELSE perms'[c].profile = perms[c].profile
\* a sleeping restore goes away only by waking and calling OPEN for its chat
NeverCancelled ==
    \/ unmute_later' = unmute_later
    \/ Len(unmute_later') > Len(unmute_later)
    \/ /\ unmute_later' = Tail(unmute_later)
       /\ ev'.kind = "unmute_later"
       /\ ev'.calls = <<Call("set_chat_permissions", Head(unmute_later), 0, "OPEN")>>
\* C20 (as claimed): once /mute1m has set RESTRICTED for a chat, a restore for
\* that chat is asleep; a restore is never cancelled and calls OPEN when it
\* wakes; and the permissions of every chat are those of the most recent call
\* carried out, be it of /mute1m, a restore or a timer.
C20_LastWriteWins ==
    [][(ev' # Idle) =>
       /\ (ev'.kind = "mute1m" /\ Carried(ev') # {})
            => unmute_later' = Append(unmute_later, ev'.msg.chat.id)
       /\ NeverCancelled
       /\ LastWriteWins]_vars
\* C20: the same for the /mute1m whose reply was delivered.
C20_LastWriteWinsReplied ==
    [][(ev' # Idle) =>
       /\ (ev'.kind = "mute1m" /\ Carried(ev') # {} /\ "reply_muted" \notin ev'.env.failing)
            => unmute_later' = Append(unmute_later, ev'.msg.chat.id)
       /\ NeverCancelled
       /\ LastWriteWins]_vars
\* /mute1m restricted the chat, its reply failed, and no restore is asleep
C20_MutedWithoutRestore ==
    /\ ev # Idle /\ ev.kind = "mute1m" /\ ev.msg.chat.id \in Chats
    /\ perms[ev.msg.chat.id].profile = "RESTRICTED"
    /\ ev.reply = NoReply /\ unmute_later = <<>>
\* the close timer has closed both chats and the restore of /mute1m then opened
\* the first of them: it is open in the closed period
C20_OpenWhileClosed ==
    /\ ev # Idle /\ ev.kind = "unmute_later" /\ ev.env.failing = {}
    /\ Len(CONFIG.managed_chats) = 2
    /\ perms[G1.id] = [profile |-> "OPEN", asked |-> "OPEN"]
    /\ perms[G2.id] = [profile |-> "RESTRICTED", asked |-> "RESTRICTED"]

\* C21 (as claimed): moderation_gate returns without raising for every message
\* and every outcome of the transport calls; a banned phrase posted without
\* from_user, on behalf of another chat, is deleted and nothing is raised.
C21_GateNeverRaises ==
    Gated => /\ ev.raised = ""
             /\ (~ExemptSender /\ MatchesPhrase(ev.msg)) => Deleted
\* C21: the same for the messages that carry from_user in a chat whose
\* registration did not fail to save.
C21_GateNeverRaisesOfUsers ==
    (Gated /\ ev.msg.from_user # None /\ ev.env.save \in {"ok", "unsaved"})
        => /\ ev.raised = ""
           /\ (~ExemptSender /\ MatchesPhrase(ev.msg)) => Deleted
\* a banned phrase posted on behalf of another chat: the delete went through,
\* then AttributeError left the handler
C21_RaisedAfterDelete ==
    /\ Gated /\ ev.msg.from_user = None /\ ev.msg.sender_chat = -2000
    /\ ~MatchesSoft(ev.msg) /\ MatchesPhrase(ev.msg)
    /\ Deleted /\ ev.env.failing = {} /\ ev.raised = "AttributeError"
\* a user's banned phrase: the delete and the ban both failed, nothing was raised
C21_FailuresSwallowed ==
    /\ Gated /\ ev.msg.from_user # None /\ MatchesPhrase(ev.msg)
    /\ ev.env.failing = {"delete", "ban"} /\ ev.raised = ""

ScheduleMutations == {"schedule_set", "schedule_enable", "schedule_disable", "schedule_tz"}
\* C22: schedule_set, schedule_enable, schedule_disable and schedule_tz issue no
\* set-permissions call and leave the permissions of every chat and the sleeping
\* restores as they were; a RESTRICTED chat becomes OPEN only in a step that
\* carries out an OPEN call for it: a firing of the open timer or a restore of
\* /mute1m.
C22_ScheduleLeavesPermissions ==
    [][(ev' # Idle) =>
       /\ ev'.kind \in ScheduleMutations
            => /\ perms' = perms
               /\ unmute_later' = unmute_later
               /\ \A k \in DOMAIN ev'.calls : ev'.calls[k].op # "set_chat_permissions"
       /\ \A c \in Chats :
            (perms[c].profile = "RESTRICTED" /\ perms'[c].profile = "OPEN")
                => /\ ev'.kind \in {"auto_open", "unmute_later"}
                   /\ Call("set_chat_permissions", c, 0, "OPEN") \in Carried(ev')]_vars
\* the close timer had closed the second group; the schedule was then disabled,
\* the timers are gone and the group is still RESTRICTED
C22_ClosedAfterDisable ==
    /\ ev # Idle /\ ev.kind = "schedule_disable" /\ ev.reply.text = "disabled"
    /\ ~CONFIG.schedule.enabled /\ Timers = {}
    /\ G2.id \in Range(CONFIG.managed_chats)
    /\ perms[G2.id] = [profile |-> "RESTRICTED", asked |-> "RESTRICTED"]
====
